---- MODULE Spec2Model ----
(***************************************************************************)
(* The concurrent simulation engine of game-of-life:                      *)
(*   UnrolledMatrix  (src/source/unrolled_matrix.hpp)                      *)
(*   Grid            (src/source/game.hpp)                                 *)
(*   ThreadPool      (src/source/threadpool.hpp)                           *)
(*   Simulation      (src/source/simulation.hpp)                           *)
(* Threads are the background tick thread, the pool workers and the       *)
(* client threads that call the driver's public methods.                  *)
(*                                                                         *)
(* spp::Sync<Grid, std::mutex, false> is the sync_cpp library's wrapper    *)
(* around an external mutex: m_grid is built from m_mutex, so the grid     *)
(* lock and the mutex of the sleep routine are the same std::mutex;        *)
(* write(fn) and read(fn) lock it, call fn(grid) and unlock.               *)
(***************************************************************************)
EXTENDS Integers, Sequences, FiniteSets, TLC

\* ------------------------------------------------------------------ bounds
\* the pool sizes explored are 1..MaxWorkers (std::thread::hardware_concurrency)
MaxWorkers == 2
\* updateState() is started at most MaxGen times in a behaviour
MaxGen == 2
\* the client threads make at most MaxCalls method calls in a behaviour
MaxCalls == 2
\* at most MaxTasks tasks are given to ThreadPool::enqueue by its callers
MaxTasks == 3
\* Coord_type is int, 32 bits in the build; the model keeps the arithmetic of
\* Grid::operator() at IntBits bits
IntBits == 6
\* the lone cell is followed for MaxTrail generations, beyond the 255 its
\* trail takes
MaxTrail == 258
TrailDim == <<3, 3>>
\* the partition of the rows is examined for heights 1..MaxRows
MaxRows == 4
\* the blinker is followed for MaxBlinkerGen generations
MaxBlinkerGen == 4

\* --------------------------------------------------------------- constants
LIVE_STATE == 255
DEAD_STATE == 0
s_lazyUpdateTime == 33
\* stands for "UnrolledMatrix::get threw": no cell holds it
OutOfRange == -1

TickThread == "tick"
Clients == {"c1", "c2"}
Threads == {TickThread} \cup Clients
NoThread == "none"

\* the <<width, height>> arguments given to the constructors
CtorDims == {<<1, 2>>, <<0, 2>>, <<1, 0>>, <<0, 0>>, <<-1, 2>>}
\* the grids of the pure-function specification: <<width, height>>
GridDims == {<<2, 3>>}
\* the cell values an initial front buffer is drawn from
InitCells == {DEAD_STATE, 1, LIVE_STATE}
\* the grid populate() is run on: with two workers CHUNKED has a remainder row
PopulateDim == <<1, 3>>
\* the cell values of the grid clear() is run on: none is DEAD
ClearCells == {2, LIVE_STATE}
\* the blinker scenario: a 10x10 grid, and the pool sizes it is run with
BlinkerDim == <<10, 10>>
BlinkerPools == 1..12
\* the grid of the driver specification
DriverDim == <<1, 2>>
\* the delays (ms) given to the constructor and to setDelay
DelayVals == {5, 100}
\* the delays (ms) of the sleep routine: below, between and above
\* s_lazyUpdateTime
SleepDelays == {5, 50, 100}
\* the delays (ms) of the specification of setDelay: std::size_t, zero included
AnyDelays == {0, 5, 100}
\* the coordinates a guarded write paints; <<1, 0>> is out of bound
WriteCoords == {<<0, 0>>, <<1, 0>>}

VARIABLES
    \* Grid
    m_front, m_back, m_width, m_height, m_updateStrategy,
    \* ThreadPool
    nThreads, m_tasks, workers,
    \* locals of process_multi, per calling thread, and its futures
    pm, futures,
    \* ThreadPool: the stop flag, the workers that have left their loop
    m_stop, exitedWorkers,
    \* Simulation
    m_mutex, m_paused, m_ignoreDelay, m_wakeFlag, m_delay, stopRequested,
    \* m_cv: a notify_one() reached the tick thread blocked in wait_until
    cvNotified,
    \* populate: what shouldSpawn (the noise-biased test) and getRandomBool
    \* (the uniform test) return for each cell, in the order of the flat buffer
    spawnTests,
    \* the clock: the deadline of the tick thread's current sleep has passed
    deadlinePassed,
    \* ThreadPool: the workers blocked in m_condition.wait
    asleep,
    \* threads: position, locals
    pc, loc,
    \* history: generations completed, canary write counts of the latest
    \* updateState, the tick's progress, whether stop() was requested while
    \* a tick was in progress, the number of method calls made by clients
    gen, writeCount, tickStage, stopMidTick, calls

gridVars == <<m_front, m_back, m_width, m_height, m_updateStrategy>>
poolVars == <<nThreads, m_tasks, workers>>
flagVars == <<m_paused, m_ignoreDelay, m_wakeFlag, m_delay, stopRequested>>
histVars == <<gen, writeCount, tickStage, stopMidTick>>
stopVars == <<m_stop, exitedWorkers>>
otherVars == <<spawnTests, deadlinePassed, asleep>>
auxVars == <<m_stop, exitedWorkers, cvNotified, spawnTests, deadlinePassed, asleep>>
vars == <<m_front, m_back, m_width, m_height, m_updateStrategy,
          nThreads, m_tasks, workers, pm, futures,
          m_mutex, m_paused, m_ignoreDelay, m_wakeFlag, m_delay, stopRequested,
          pc, loc, gen, writeCount, tickStage, stopMidTick, calls,
          m_stop, exitedWorkers, cvNotified, spawnTests, deadlinePassed, asleep>>

Min(a, b) == IF a < b THEN a ELSE b

\* the locals of a thread that is in no method
NoLoc == [op |-> "none", delay |-> 0, paused |-> FALSE, x |-> 0, y |-> 0,
          v |-> 0, snap |-> <<>>, updates |-> 0, gen0 |-> 0,
          running |-> FALSE, discard |-> FALSE]

\* --------------------------------------------------------- UnrolledMatrix
\* UnrolledMatrix(width, height, init): a flat vector of width*height cells
UM_new(w, h, init) == [w |-> w, h |-> h, mat |-> [k \in 1..(w * h) |-> init]]

\* a get that checks the flat index only, not the column and the row
UM_get_flatOnly(m, col, row) ==
    IF row * m.w + col + 1 \notin 1..Len(m.mat)
    THEN OutOfRange
    ELSE m.mat[row * m.w + col + 1]

\* UnrolledMatrix::get: throws when col/row is out of range
UM_get(m, col, row) ==
    IF col < 0 \/ row < 0 \/ col >= m.w \/ row >= m.h
    THEN OutOfRange
    ELSE m.mat[row * m.w + col + 1]

\* a store through the reference UnrolledMatrix::get returns
UM_set(m, col, row, v) ==
    IF col < 0 \/ row < 0 \/ col >= m.w \/ row >= m.h
    THEN m
    ELSE [m EXCEPT !.mat[row * m.w + col + 1] = v]

\* ------------------------------------------------------------------- Grid
\* C++ operator% on int: truncates toward zero
CRem(a, b) == IF a >= 0 THEN a % b ELSE -((-a) % b)

isInBound(xPos, yPos) ==
    xPos >= 0 /\ xPos < m_width /\ yPos >= 0 /\ yPos < m_height

\* Grid::get(x, y, FRONT) on front buffer f: no resolution of the
\* coordinates, UnrolledMatrix::get decides
Grid_get(f, xPos, yPos) == UM_get(f, xPos, yPos)

\* the effective coordinate of Grid::operator()
EffCoord_truncating(v, n) == CRem(v, n)
EffCoord(v, n) == CRem(n + CRem(v, n), n)

\* Grid::operator()(x, y): boundary condition wrap-around
Grid_call(f, xPos, yPos) ==
    IF ~isInBound(xPos, yPos)
    THEN Grid_get(f, EffCoord(xPos, m_width), EffCoord(yPos, m_height))
    ELSE Grid_get(f, xPos, yPos)

checkState(f, x, y) == IF Grid_call(f, x, y) = LIVE_STATE THEN 1 ELSE 0

\* Grid::checkNeighbors: the number of live neighbours
checkNeighbors(f, x, y) ==
      checkState(f, x - 1, y - 1) + checkState(f, x, y - 1) + checkState(f, x + 1, y - 1)
    + checkState(f, x - 1, y    )                           + checkState(f, x + 1, y    )
    + checkState(f, x - 1, y + 1) + checkState(f, x, y + 1) + checkState(f, x + 1, y + 1)

\* (cell == 0 || cell - 1 == 0) ? DEAD_STATE : cell - 1
Decay(cell) == IF cell = 0 \/ cell - 1 = 0 THEN DEAD_STATE ELSE cell - 1

\* the value updateState's lambda stores in m_back(x, y)
CellNext(f, x, y) ==
    LET cell == UM_get(f, x, y)
        neigbor == checkNeighbors(f, x, y)
    IN  IF cell = LIVE_STATE
        THEN IF neigbor < 2 THEN Decay(cell)
             ELSE IF neigbor <= 3 THEN LIVE_STATE
             ELSE Decay(cell)
        ELSE IF neigbor = 3 THEN LIVE_STATE
             ELSE Decay(cell)

\* the inner loop of a row task: func(x, y) for x in 0..m_width-1
RunRow(f, back, y) ==
    [back EXCEPT !.mat = [k \in 1..Len(back.mat) |->
        IF (k - 1) \div back.w = y
        THEN CellNext(f, (k - 1) % back.w, y)
        ELSE back.mat[k]]]

\* the rows of a task in order: for (count ...) for (x ...) func(x, y)
RECURSIVE RunRows(_, _, _)
RunRows(f, back, rows) ==
    IF rows = <<>> THEN back
    ELSE RunRows(f, RunRow(f, back, Head(rows)), Tail(rows))

\* an interleaved task that never takes the extra step of the remainder rows
InterleavedRows_noRemainder(i) ==
    LET concurrencyLevel == nThreads
        chunkSize == m_height \div concurrencyLevel
    IN  [count \in 1..chunkSize |-> (count - 1) * concurrencyLevel + i]

\* processInterleaved: the rows of task i
InterleavedRows(i) ==
    LET concurrencyLevel == nThreads
        chunkSize == m_height \div concurrencyLevel
        maxSize == chunkSize * concurrencyLevel + i
        numSteps == IF maxSize < m_height THEN chunkSize + 1 ELSE chunkSize
    IN  [count \in 1..numSteps |-> (count - 1) * concurrencyLevel + i]

\* processChunked: the number of tasks and the rows of task i
ChunkedLevel == Min(nThreads, m_height)
ChunkedRows(i) ==
    LET concurrencyLevel == ChunkedLevel
        chunkSize == m_height \div concurrencyLevel
        chunkBegin == i * chunkSize
        chunkEnd == Min(chunkBegin + chunkSize, m_height)
    IN  [k \in 1..(chunkEnd - chunkBegin) |-> chunkBegin + k - 1]

\* process_multi: the strategy decides the partition
NumTasks == IF m_updateStrategy = "INTERLEAVED" THEN nThreads ELSE ChunkedLevel
TaskRows(i) == IF m_updateStrategy = "INTERLEAVED" THEN InterleavedRows(i)
               ELSE ChunkedRows(i)

\* ------------------------------------------------------------- ThreadPool
NoTask == [owner |-> NoThread, idx |-> 0, rows |-> <<>>, tag |-> 0]
IdleWorker == [busy |-> FALSE, task |-> NoTask]
Workers == 1..nThreads

\* a worker that takes the task enqueued last
Worker_Take_last(w) ==
    /\ w \notin exitedWorkers
    /\ ~workers[w].busy
    /\ m_tasks /= <<>>
    /\ workers' = [workers EXCEPT ![w] = [busy |-> TRUE,
                                          task |-> m_tasks[Len(m_tasks)]]]
    /\ m_tasks' = SubSeq(m_tasks, 1, Len(m_tasks) - 1)
    /\ UNCHANGED <<auxVars, nThreads, gridVars, pm, futures, m_mutex, flagVars, pc, loc,
                   histVars, calls>>

\* worker loop: wait until the queue is not empty, take its front
Worker_Take(w) ==
    /\ w \notin exitedWorkers
    /\ ~workers[w].busy
    /\ m_tasks /= <<>>
    /\ workers' = [workers EXCEPT ![w] = [busy |-> TRUE, task |-> Head(m_tasks)]]
    /\ m_tasks' = Tail(m_tasks)
    /\ UNCHANGED <<auxVars, nThreads, gridVars, pm, futures, m_mutex, flagVars, pc, loc,
                   histVars, calls>>

\* the number of times row y occurs in rows
RECURSIVE Occurrences(_, _)
Occurrences(rows, y) ==
    IF rows = <<>> THEN 0
    ELSE (IF Head(rows) = y THEN 1 ELSE 0) + Occurrences(Tail(rows), y)

\* task(): the packaged task runs its rows and its future becomes ready
Worker_Run(w) ==
    /\ workers[w].busy
    /\ workers' = [workers EXCEPT ![w] = IdleWorker]
    /\ futures' = [futures EXCEPT ![workers[w].task.owner] =
           [k \in 1..Len(@) |-> IF k = workers[w].task.idx + 1 THEN "ready" ELSE @[k]]]
    /\ m_back' = RunRows(m_front, m_back, workers[w].task.rows)
    /\ writeCount' = [k \in 1..Len(m_back.mat) |->
           writeCount[k] + Occurrences(workers[w].task.rows, (k - 1) \div m_back.w)]
    /\ UNCHANGED <<auxVars, m_front, m_width, m_height, m_updateStrategy, nThreads,
                   m_tasks, pm, m_mutex, flagVars, pc, loc, gen, tickStage,
                   stopMidTick, calls>>

\* ------------------------------------------------- Grid::updateState steps
InUpdateState(t) == pc[t] \in {"enqueue", "join", "swap"}

\* the locals of process_multi before the first task is submitted
PmStart == [n |-> NumTasks, i |-> 0, j |-> 0]
PmNone == [n |-> 0, i |-> 0, j |-> 0]

\* entering updateState() on thread t
EnterUpdate(t) ==
    /\ pm' = [pm EXCEPT ![t] = PmStart]
    /\ futures' = [futures EXCEPT ![t] = <<>>]
    /\ writeCount' = [k \in 1..Len(m_back.mat) |-> 0]

\* the enqueue loop of processInterleaved / processChunked: one task
US_Enqueue(t) ==
    /\ pc[t] = "enqueue"
    /\ pm[t].i < pm[t].n
    /\ m_tasks' = Append(m_tasks, [owner |-> t, idx |-> pm[t].i,
                                   rows |-> TaskRows(pm[t].i), tag |-> gen])
    /\ futures' = [futures EXCEPT ![t] = Append(@, "pending")]
    /\ pm' = [pm EXCEPT ![t].i = @ + 1]
    /\ pc' = [pc EXCEPT ![t] = IF pm[t].i + 1 = pm[t].n THEN "join" ELSE "enqueue"]
    /\ UNCHANGED <<auxVars, nThreads, workers, gridVars, m_mutex, flagVars, loc,
                   histVars, calls>>

\* for (auto& future : futures) future.get(): a get that does not wait
US_Join_nowait(t) ==
    /\ pc[t] = "join"
    /\ pm[t].j < pm[t].n
    /\ pm' = [pm EXCEPT ![t].j = @ + 1]
    /\ pc' = [pc EXCEPT ![t] = IF pm[t].j + 1 = pm[t].n THEN "swap" ELSE "join"]
    /\ UNCHANGED <<auxVars, poolVars, gridVars, futures, m_mutex, flagVars, loc,
                   histVars, calls>>

\* for (auto& future : futures) future.get(): blocks until it is ready
US_Join(t) ==
    /\ pc[t] = "join"
    /\ pm[t].j < pm[t].n
    /\ futures[t][pm[t].j + 1] = "ready"
    /\ pm' = [pm EXCEPT ![t].j = @ + 1]
    /\ pc' = [pc EXCEPT ![t] = IF pm[t].j + 1 = pm[t].n THEN "swap" ELSE "join"]
    /\ UNCHANGED <<auxVars, poolVars, gridVars, futures, m_mutex, flagVars, loc,
                   histVars, calls>>

\* where updateState() returns to
AfterUpdate(t) == IF t = TickThread THEN "callback" ELSE "fu_unlock"

\* a swap that copies the back buffer into the front buffer and keeps the back
US_Swap_copy(t) ==
    /\ pc[t] = "swap"
    /\ m_front' = m_back
    /\ m_back' = m_back
    /\ gen' = gen + 1
    /\ tickStage' = IF t = TickThread THEN "swapped" ELSE tickStage
    /\ pc' = [pc EXCEPT ![t] = AfterUpdate(t)]
    /\ loc' = [loc EXCEPT ![t].updates = @ + 1]
    /\ pm' = [pm EXCEPT ![t] = PmNone]
    /\ futures' = [futures EXCEPT ![t] = <<>>]
    /\ UNCHANGED <<auxVars, m_width, m_height, m_updateStrategy, poolVars, m_mutex,
                   flagVars, writeCount, stopMidTick, calls>>

\* m_front.swap(m_back); updateState() returns, process_multi's locals are gone
US_Swap(t) ==
    /\ pc[t] = "swap"
    /\ m_front' = m_back
    /\ m_back' = m_front
    /\ gen' = gen + 1
    /\ tickStage' = IF t = TickThread THEN "swapped" ELSE tickStage
    /\ pc' = [pc EXCEPT ![t] = AfterUpdate(t)]
    /\ loc' = [loc EXCEPT ![t].updates = @ + 1]
    /\ pm' = [pm EXCEPT ![t] = PmNone]
    /\ futures' = [futures EXCEPT ![t] = <<>>]
    /\ UNCHANGED <<auxVars, m_width, m_height, m_updateStrategy, poolVars, m_mutex,
                   flagVars, writeCount, stopMidTick, calls>>

\* ---------------------------------------------------- Simulation::launch
\* m_cv.notify_one(): reaches the tick thread only if it is blocked in the
\* wait; otherwise the notification is gone
notify_one == cvNotified' = (cvNotified \/ pc[TickThread] = "blocked")

\* launch(fn): the jthread starts; launch() and stop() are called by the
\* thread that owns the driver, never at the same time
Launch ==
    /\ pc[TickThread] = "unlaunched"
    /\ \A c \in Clients : pc[c] \notin {"st_wake", "st_join"}
    /\ pc' = [pc EXCEPT ![TickThread] = "loop"]
    /\ UNCHANGED <<auxVars, gridVars, poolVars, pm, futures, m_mutex, flagVars, loc,
                   histVars, calls>>

\* while (!st.stop_requested())
TickLoop ==
    /\ pc[TickThread] = "loop"
    /\ pc' = [pc EXCEPT ![TickThread] = IF stopRequested THEN "exited" ELSE "lock"]
    /\ tickStage' = IF stopRequested THEN tickStage ELSE "none"
    /\ UNCHANGED <<auxVars, gridVars, poolVars, pm, futures, m_mutex, flagVars, loc,
                   gen, writeCount, stopMidTick, calls>>

\* m_grid.write(...) with a lambda that calls updateState() whatever m_paused
TickAcquire_ignoresPause ==
    /\ pc[TickThread] = "lock"
    /\ m_mutex = NoThread
    /\ gen < MaxGen
    /\ m_mutex' = TickThread
    /\ pc' = [pc EXCEPT ![TickThread] = "enqueue"]
    /\ EnterUpdate(TickThread)
    /\ tickStage' = "updating"
    /\ UNCHANGED <<auxVars, gridVars, poolVars, flagVars, loc, gen, stopMidTick, calls>>

\* m_grid.write([&](Grid& grid) { if (!m_paused) grid.updateState(); ...
TickAcquire ==
    /\ pc[TickThread] = "lock"
    /\ m_mutex = NoThread
    /\ m_paused \/ gen < MaxGen
    /\ m_mutex' = TickThread
    /\ IF ~m_paused
       THEN /\ pc' = [pc EXCEPT ![TickThread] = "enqueue"]
            /\ EnterUpdate(TickThread)
            /\ tickStage' = "updating"
       ELSE /\ pc' = [pc EXCEPT ![TickThread] = "callback"]
            /\ tickStage' = "skipped"
            /\ UNCHANGED <<pm, futures, writeCount>>
    /\ UNCHANGED <<auxVars, gridVars, poolVars, flagVars, loc, gen, stopMidTick, calls>>

\* a lambda that returns before fn(grid) when stop was requested
TickCallback_stopAware ==
    /\ pc[TickThread] = "callback"
    /\ m_mutex' = NoThread
    /\ tickStage' = IF stopRequested THEN tickStage ELSE "called"
    /\ pc' = [pc EXCEPT ![TickThread] =
                 IF stopRequested THEN "exited" ELSE "sleep_check"]
    /\ loc' = [loc EXCEPT ![TickThread] = NoLoc]
    /\ writeCount' = [k \in 1..Len(m_back.mat) |-> 0]
    /\ UNCHANGED <<auxVars, gridVars, poolVars, pm, futures, flagVars, gen, stopMidTick,
                   calls>>

\* a write() whose guard is not released when the lambda returns
TickCallback_lockKept ==
    /\ pc[TickThread] = "callback"
    /\ tickStage' = "called"
    /\ pc' = [pc EXCEPT ![TickThread] = "sleep_check"]
    /\ loc' = [loc EXCEPT ![TickThread] = NoLoc]
    /\ writeCount' = [k \in 1..Len(m_back.mat) |-> 0]
    /\ UNCHANGED <<auxVars, gridVars, poolVars, pm, futures, m_mutex, flagVars, gen,
                   stopMidTick, calls>>

\* fn(grid) under the lock, then the guard of write() is released
TickCallback ==
    /\ pc[TickThread] = "callback"
    /\ m_mutex' = NoThread
    /\ tickStage' = "called"
    /\ pc' = [pc EXCEPT ![TickThread] = "sleep_check"]
    /\ loc' = [loc EXCEPT ![TickThread] = NoLoc]
    /\ writeCount' = [k \in 1..Len(m_back.mat) |-> 0]
    /\ UNCHANGED <<auxVars, gridVars, poolVars, pm, futures, flagVars, gen, stopMidTick,
                   calls>>

\* if (bool paused = m_paused.load(); paused || !m_ignoreDelay)
\*     Duration delay{ m_delay.load() }; ... delay = paused ? s_lazyUpdateTime : delay
TickSleepCheck ==
    /\ pc[TickThread] = "sleep_check"
    /\ IF m_paused \/ ~m_ignoreDelay
       THEN /\ pc' = [pc EXCEPT ![TickThread] = "sleep_lock"]
            /\ loc' = [loc EXCEPT ![TickThread].delay =
                          IF m_paused THEN s_lazyUpdateTime ELSE m_delay]
       ELSE /\ pc' = [pc EXCEPT ![TickThread] = "loop"]
            /\ UNCHANGED loc
    /\ UNCHANGED <<auxVars, gridVars, poolVars, pm, futures, m_mutex, flagVars,
                   histVars, calls>>

\* std::unique_lock lock{ m_mutex }
TickSleepLock ==
    /\ pc[TickThread] = "sleep_lock"
    /\ m_mutex = NoThread
    /\ m_mutex' = TickThread
    /\ pc' = [pc EXCEPT ![TickThread] = "wait"]
    /\ UNCHANGED <<auxVars, gridVars, poolVars, pm, futures, flagVars, loc, histVars,
                   calls>>

\* m_cv.wait_until(lock, deadline, pred): the predicate is read first, under
\* the lock
TickWait ==
    /\ pc[TickThread] = "wait"
    /\ pc' = [pc EXCEPT ![TickThread] =
                 IF m_wakeFlag THEN "wake_reset" ELSE "wait_block"]
    /\ UNCHANGED <<auxVars, gridVars, poolVars, pm, futures, m_mutex, flagVars,
                   loc, histVars, calls>>

\* a wait that blocks without releasing the lock
TickBlock_lockKept ==
    /\ pc[TickThread] = "wait_block"
    /\ pc' = [pc EXCEPT ![TickThread] = "blocked"]
    /\ cvNotified' = FALSE
    /\ UNCHANGED <<stopVars, otherVars, gridVars, poolVars, pm, futures, m_mutex,
                   flagVars, loc, histVars, calls>>

\* the predicate was false: m_cv.wait_until(lock, deadline) releases the lock
\* and blocks; m_wakeFlag is written without the lock, so it may have been
\* set since the predicate was read
TickBlock ==
    /\ pc[TickThread] = "wait_block"
    /\ pc' = [pc EXCEPT ![TickThread] = "blocked"]
    /\ m_mutex' = NoThread
    /\ cvNotified' = FALSE
    /\ UNCHANGED <<stopVars, otherVars, gridVars, poolVars, pm, futures, flagVars, loc,
                   histVars, calls>>

\* the wait ends (notified, or the deadline has passed): the lock is taken
\* again
TickWaitReturn ==
    /\ pc[TickThread] = "blocked"
    /\ m_mutex = NoThread
    /\ m_mutex' = TickThread
    /\ pc' = [pc EXCEPT ![TickThread] = "wake_reset"]
    /\ cvNotified' = FALSE
    /\ UNCHANGED <<stopVars, otherVars, gridVars, poolVars, pm, futures, flagVars, loc, histVars,
                   calls>>

\* m_wakeFlag = false; lock, delay and the deadline go out of scope
TickWakeReset ==
    /\ pc[TickThread] = "wake_reset"
    /\ m_wakeFlag' = FALSE
    /\ m_mutex' = NoThread
    /\ pc' = [pc EXCEPT ![TickThread] = "loop"]
    /\ loc' = [loc EXCEPT ![TickThread] = NoLoc]
    /\ deadlinePassed' = FALSE
    /\ UNCHANGED <<stopVars, cvNotified, spawnTests, asleep, gridVars, poolVars, pm,
                   futures, m_paused, m_ignoreDelay, m_delay, stopRequested, histVars,
                   calls>>

\* ------------------------------------- the sleep routine, with its clock
\* time goes by: the deadline tpsCounter.m_currTime + delay of the current
\* sleep passes
TK_Expire ==
    /\ pc[TickThread] \in {"sleep_lock", "wait", "wait_block", "blocked"}
    /\ ~deadlinePassed
    /\ deadlinePassed' = TRUE
    /\ UNCHANGED <<stopVars, cvNotified, spawnTests, asleep, gridVars, poolVars, pm,
                   futures, m_mutex, flagVars, pc, loc, histVars, calls>>

\* m_cv.wait_until(lock, deadline) returns cv_status::timeout: the lock is
\* taken again and wait_until(lock, deadline, pred) returns
TK_Timeout ==
    /\ pc[TickThread] = "blocked"
    /\ deadlinePassed
    /\ m_mutex = NoThread
    /\ m_mutex' = TickThread
    /\ pc' = [pc EXCEPT ![TickThread] = "wake_reset"]
    /\ cvNotified' = FALSE
    /\ UNCHANGED <<stopVars, otherVars, gridVars, poolVars, pm, futures, flagVars, loc,
                   histVars, calls>>

\* a wait_until without a predicate: any wake-up ends the sleep
TK_Wakeup_noPredicate ==
    /\ pc[TickThread] = "blocked"
    /\ m_mutex = NoThread
    /\ m_mutex' = TickThread
    /\ pc' = [pc EXCEPT ![TickThread] = "wake_reset"]
    /\ cvNotified' = FALSE
    /\ UNCHANGED <<stopVars, otherVars, gridVars, poolVars, pm, futures, flagVars, loc,
                   histVars, calls>>

\* m_cv.wait_until(lock, deadline) returns before the deadline, notified or
\* spuriously: the lock is taken again and the loop of
\* wait_until(lock, deadline, pred) reads the predicate again
TK_Wakeup ==
    /\ pc[TickThread] = "blocked"
    /\ m_mutex = NoThread
    /\ m_mutex' = TickThread
    /\ pc' = [pc EXCEPT ![TickThread] = "wait"]
    /\ cvNotified' = FALSE
    /\ UNCHANGED <<stopVars, otherVars, gridVars, poolVars, pm, futures, flagVars, loc,
                   histVars, calls>>

\* ------------------------------------------- Simulation: public methods
\* a client thread enters a method of the driver
StartCall(c) ==
    /\ pc[c] = "idle"
    /\ calls < MaxCalls
    /\ calls' = calls + 1

\* the thread leaves the method: its locals are gone
Return(c) ==
    /\ pc' = [pc EXCEPT ![c] = "idle"]
    /\ loc' = [loc EXCEPT ![c] = NoLoc]

\* launch() has started m_thread and no stop has been requested
Running == pc[TickThread] \notin {"unlaunched", "exited"} /\ ~stopRequested

\* forceUpdate(): wakeUp()
FU_Wake(c) ==
    /\ StartCall(c)
    /\ m_wakeFlag' = TRUE
    /\ notify_one
    /\ pc' = [pc EXCEPT ![c] = "fu_check"]
    /\ loc' = [loc EXCEPT ![c].op = "forceUpdate", ![c].gen0 = gen,
                          ![c].running = Running]
    /\ UNCHANGED <<stopVars, otherVars, gridVars, poolVars, pm, futures, m_mutex, m_paused,
                   m_ignoreDelay, m_delay, stopRequested, histVars>>

\* forceUpdate() that calls m_grid.write(&Grid::updateState) whatever m_paused
FU_Check_always(c) ==
    /\ pc[c] = "fu_check"
    /\ pc' = [pc EXCEPT ![c] = "fu_lock"]
    /\ loc' = [loc EXCEPT ![c].paused = m_paused]
    /\ UNCHANGED <<auxVars, gridVars, poolVars, pm, futures, m_mutex, flagVars,
                   histVars, calls>>

\* forceUpdate(): if (m_paused)
FU_Check(c) ==
    /\ pc[c] = "fu_check"
    /\ IF m_paused
       THEN /\ pc' = [pc EXCEPT ![c] = "fu_lock"]
            /\ loc' = [loc EXCEPT ![c].paused = TRUE]
       ELSE Return(c)
    /\ UNCHANGED <<auxVars, gridVars, poolVars, pm, futures, m_mutex, flagVars,
                   histVars, calls>>

\* forceUpdate() that calls updateState() without the grid lock
FU_Lock_nolock(c) ==
    /\ pc[c] = "fu_lock"
    /\ gen < MaxGen
    /\ m_mutex' = c
    /\ pc' = [pc EXCEPT ![c] = "enqueue"]
    /\ loc' = [loc EXCEPT ![c].gen0 = gen]
    /\ EnterUpdate(c)
    /\ UNCHANGED <<auxVars, gridVars, poolVars, flagVars, gen, tickStage, stopMidTick,
                   calls>>

\* forceUpdate(): m_grid.write(&Grid::updateState) takes the grid lock
FU_Lock(c) ==
    /\ pc[c] = "fu_lock"
    /\ m_mutex = NoThread
    /\ gen < MaxGen
    /\ m_mutex' = c
    /\ pc' = [pc EXCEPT ![c] = "enqueue"]
    /\ loc' = [loc EXCEPT ![c].gen0 = gen]
    /\ EnterUpdate(c)
    /\ UNCHANGED <<auxVars, gridVars, poolVars, flagVars, gen, tickStage, stopMidTick,
                   calls>>

\* forceUpdate(): updateState() returned, the guard of write() is released
FU_Unlock(c) ==
    /\ pc[c] = "fu_unlock"
    /\ m_mutex' = NoThread
    /\ Return(c)
    /\ writeCount' = [k \in 1..Len(m_back.mat) |-> 0]
    /\ UNCHANGED <<auxVars, gridVars, poolVars, pm, futures, flagVars, gen, tickStage,
                   stopMidTick, calls>>

\* a write(fn) that does not take the lock
WR_Lock_nolock(c) ==
    /\ StartCall(c)
    /\ m_mutex' = c
    /\ \E xy \in WriteCoords, v \in {LIVE_STATE, DEAD_STATE} :
          loc' = [loc EXCEPT ![c].op = "write",
                             ![c].x = xy[1], ![c].y = xy[2], ![c].v = v]
    /\ pc' = [pc EXCEPT ![c] = "wr_body"]
    /\ UNCHANGED <<auxVars, gridVars, poolVars, pm, futures, flagVars, histVars>>

\* write(fn): the lock is taken; fn paints cell (x, y) with v
WR_Lock(c) ==
    /\ StartCall(c)
    /\ m_mutex = NoThread
    /\ m_mutex' = c
    /\ \E xy \in WriteCoords, v \in {LIVE_STATE, DEAD_STATE} :
          loc' = [loc EXCEPT ![c].op = "write",
                             ![c].x = xy[1], ![c].y = xy[2], ![c].v = v]
    /\ pc' = [pc EXCEPT ![c] = "wr_body"]
    /\ UNCHANGED <<auxVars, gridVars, poolVars, pm, futures, flagVars, histVars>>

\* write(fn) is called: the thread asks for the lock
WR_Call(c) ==
    /\ StartCall(c)
    /\ \E xy \in WriteCoords, v \in {LIVE_STATE, DEAD_STATE} :
          loc' = [loc EXCEPT ![c].op = "write",
                             ![c].x = xy[1], ![c].y = xy[2], ![c].v = v]
    /\ pc' = [pc EXCEPT ![c] = "wr_wait"]
    /\ UNCHANGED <<auxVars, gridVars, poolVars, pm, futures, m_mutex, flagVars,
                   histVars>>

\* write(fn): the thread gets the lock
WR_Acquire(c) ==
    /\ pc[c] = "wr_wait"
    /\ m_mutex = NoThread
    /\ m_mutex' = c
    /\ pc' = [pc EXCEPT ![c] = "wr_body"]
    /\ UNCHANGED <<auxVars, gridVars, poolVars, pm, futures, flagVars, loc, histVars,
                   calls>>

\* fn: if (grid.isInBound(x, y)) grid.get(x, y) = v; then the lock is released
WR_Body(c) ==
    /\ pc[c] = "wr_body"
    /\ m_front' = IF isInBound(loc[c].x, loc[c].y)
                  THEN UM_set(m_front, loc[c].x, loc[c].y, loc[c].v)
                  ELSE m_front
    /\ m_mutex' = NoThread
    /\ Return(c)
    /\ UNCHANGED <<auxVars, m_back, m_width, m_height, m_updateStrategy, poolVars, pm,
                   futures, flagVars, histVars, calls>>

\* a read(fn) that does not take the lock
RD_Lock_nolock(c) ==
    /\ StartCall(c)
    /\ m_mutex' = c
    /\ pc' = [pc EXCEPT ![c] = "rd_first"]
    /\ loc' = [loc EXCEPT ![c].op = "read"]
    /\ UNCHANGED <<auxVars, gridVars, poolVars, pm, futures, flagVars, histVars>>

\* read(fn): the lock is taken; fn copies grid.data() in two halves
RD_Lock(c) ==
    /\ StartCall(c)
    /\ m_mutex = NoThread
    /\ m_mutex' = c
    /\ pc' = [pc EXCEPT ![c] = "rd_first"]
    /\ loc' = [loc EXCEPT ![c].op = "read"]
    /\ UNCHANGED <<auxVars, gridVars, poolVars, pm, futures, flagVars, histVars>>

RD_First(c) ==
    /\ pc[c] = "rd_first"
    /\ loc' = [loc EXCEPT ![c].snap =
                  SubSeq(m_front.mat, 1, Len(m_front.mat) \div 2)]
    /\ pc' = [pc EXCEPT ![c] = "rd_second"]
    /\ UNCHANGED <<auxVars, gridVars, poolVars, pm, futures, m_mutex, flagVars,
                   histVars, calls>>

RD_Second(c) ==
    /\ pc[c] = "rd_second"
    /\ loc' = [loc EXCEPT ![c].snap =
                  @ \o SubSeq(m_front.mat, Len(m_front.mat) \div 2 + 1,
                              Len(m_front.mat))]
    /\ pc' = [pc EXCEPT ![c] = "rd_unlock"]
    /\ UNCHANGED <<auxVars, gridVars, poolVars, pm, futures, m_mutex, flagVars,
                   histVars, calls>>

\* fn returned: the guard of read() is released
RD_Unlock(c) ==
    /\ pc[c] = "rd_unlock"
    /\ m_mutex' = NoThread
    /\ Return(c)
    /\ UNCHANGED <<auxVars, gridVars, poolVars, pm, futures, flagVars, histVars, calls>>

\* stop(): m_thread.request_stop(); a jthread that was never started has no
\* stop state
ST_Request(c) ==
    /\ StartCall(c)
    /\ stopRequested' = (stopRequested \/ pc[TickThread] /= "unlaunched")
    /\ stopMidTick' = (stopMidTick \/
                       pc[TickThread] \in {"enqueue", "join", "swap", "callback"})
    /\ pc' = [pc EXCEPT ![c] = "st_wake"]
    /\ loc' = [loc EXCEPT ![c].op = "stop"]
    /\ UNCHANGED <<auxVars, gridVars, poolVars, pm, futures, m_mutex, m_paused,
                   m_ignoreDelay, m_wakeFlag, m_delay, gen, writeCount,
                   tickStage>>

\* stop(): wakeUp()
ST_Wake(c) ==
    /\ pc[c] = "st_wake"
    /\ m_wakeFlag' = TRUE
    /\ notify_one
    /\ pc' = [pc EXCEPT ![c] = "st_join"]
    /\ UNCHANGED <<stopVars, otherVars, gridVars, poolVars, pm, futures, m_mutex, m_paused,
                   m_ignoreDelay, m_delay, stopRequested, loc, histVars, calls>>

\* a stop() that does not join the thread
ST_Join_nowait(c) ==
    /\ pc[c] = "st_join"
    /\ Return(c)
    /\ UNCHANGED <<auxVars, gridVars, poolVars, pm, futures, m_mutex, flagVars,
                   histVars, calls>>

\* stop(): if (m_thread.joinable()) m_thread.join()
ST_Join(c) ==
    /\ pc[c] = "st_join"
    /\ pc[TickThread] \in {"unlaunched", "exited"}
    /\ Return(c)
    /\ UNCHANGED <<auxVars, gridVars, poolVars, pm, futures, m_mutex, flagVars,
                   histVars, calls>>

\* setPause(pause)
SetPause(c) ==
    /\ StartCall(c)
    /\ \E pause \in BOOLEAN : m_paused' = pause
    /\ UNCHANGED <<auxVars, gridVars, poolVars, pm, futures, m_mutex, m_ignoreDelay,
                   m_wakeFlag, m_delay, stopRequested, pc, loc, histVars>>

\* togglePause(): m_paused = !m_paused is a load followed by a store
TG_Load(c) ==
    /\ StartCall(c)
    /\ loc' = [loc EXCEPT ![c].op = "togglePause", ![c].paused = m_paused]
    /\ pc' = [pc EXCEPT ![c] = "tg_store"]
    /\ UNCHANGED <<auxVars, gridVars, poolVars, pm, futures, m_mutex, flagVars, histVars>>

TG_Store(c) ==
    /\ pc[c] = "tg_store"
    /\ m_paused' = ~loc[c].paused
    /\ Return(c)
    /\ UNCHANGED <<auxVars, gridVars, poolVars, pm, futures, m_mutex, m_ignoreDelay,
                   m_wakeFlag, m_delay, stopRequested, histVars, calls>>

\* setDelay(delay): if (m_delay > delay) ... else if (m_delay != delay),
\* for an argument taken from delays
SD_CheckOf(c, delays) ==
    /\ StartCall(c)
    /\ \E delay \in delays :
          IF m_delay > delay
          THEN /\ pc' = [pc EXCEPT ![c] = "sd_dec"]
               /\ loc' = [loc EXCEPT ![c].op = "setDelay", ![c].delay = delay]
          ELSE IF m_delay /= delay
          THEN /\ pc' = [pc EXCEPT ![c] = "sd_inc"]
               /\ loc' = [loc EXCEPT ![c].op = "setDelay", ![c].delay = delay]
          ELSE UNCHANGED <<pc, loc>>
    /\ UNCHANGED <<auxVars, gridVars, poolVars, pm, futures, m_mutex, flagVars, histVars>>

\* setDelay(delay) with one of the delays the driver specification uses
SD_Check(c) == SD_CheckOf(c, DelayVals)

\* setDelay(delay) with one of the delays of the sleep routine
SD_CheckSleep(c) == SD_CheckOf(c, SleepDelays)

\* setDelay(delay) with any delay, zero included
SD_CheckAny(c) == SD_CheckOf(c, AnyDelays)

\* m_delay = delay, then wakeUp()
SD_StoreDec(c) ==
    /\ pc[c] = "sd_dec"
    /\ m_delay' = loc[c].delay
    /\ pc' = [pc EXCEPT ![c] = "sd_wake"]
    /\ UNCHANGED <<auxVars, gridVars, poolVars, pm, futures, m_mutex, m_paused,
                   m_ignoreDelay, m_wakeFlag, stopRequested, loc, histVars, calls>>

SD_Wake(c) ==
    /\ pc[c] = "sd_wake"
    /\ m_wakeFlag' = TRUE
    /\ notify_one
    /\ Return(c)
    /\ UNCHANGED <<stopVars, otherVars, gridVars, poolVars, pm, futures, m_mutex, m_paused,
                   m_ignoreDelay, m_delay, stopRequested, histVars, calls>>

\* a setDelay that wakes the thread whenever it stores a delay
SD_StoreInc_wakes(c) ==
    /\ pc[c] = "sd_inc"
    /\ m_delay' = loc[c].delay
    /\ m_wakeFlag' = TRUE
    /\ notify_one
    /\ Return(c)
    /\ UNCHANGED <<stopVars, otherVars, gridVars, poolVars, pm, futures, m_mutex,
                   m_paused, m_ignoreDelay, stopRequested, histVars, calls>>

\* m_delay = delay, no wake
SD_StoreInc(c) ==
    /\ pc[c] = "sd_inc"
    /\ m_delay' = loc[c].delay
    /\ Return(c)
    /\ UNCHANGED <<auxVars, gridVars, poolVars, pm, futures, m_mutex, m_paused,
                   m_ignoreDelay, m_wakeFlag, stopRequested, histVars, calls>>

\* wakeUp(): m_wakeFlag = true; m_cv.notify_one()
WakeUp(c) ==
    /\ StartCall(c)
    /\ m_wakeFlag' = TRUE
    /\ notify_one
    /\ UNCHANGED <<stopVars, otherVars, gridVars, poolVars, pm, futures, m_mutex, m_paused,
                   m_ignoreDelay, m_delay, stopRequested, pc, loc, histVars>>

\* setIgnoreDelay(ignore)
SetIgnoreDelay(c) ==
    /\ StartCall(c)
    /\ \E ignore \in BOOLEAN : m_ignoreDelay' = ignore
    /\ UNCHANGED <<auxVars, gridVars, poolVars, pm, futures, m_mutex, m_paused,
                   m_wakeFlag, m_delay, stopRequested, pc, loc, histVars>>

\* --------------------------------------------------------- Grid::populate
\* the value populate's lambda stores in m_front(x, y) and m_back(x, y):
\* spawn = shouldSpawn(x, y, density) && getRandomBool(density)
SpawnCell(k) ==
    IF spawnTests[k].noise /\ spawnTests[k].uniform THEN LIVE_STATE ELSE DEAD_STATE

\* the rows of a populate task: m_back(x, y) = m_front(x, y) = spawn ? ...
PopulateRows(m, rows) ==
    [m EXCEPT !.mat = [k \in 1..Len(m.mat) |->
        IF \E n \in 1..Len(rows) : rows[n] = (k - 1) \div m.w
        THEN SpawnCell(k)
        ELSE m.mat[k]]]

\* m_simulation.write(fn), fn calls grid.populate(density): the lock is
\* taken and process_multi starts
PO_Lock(c) ==
    /\ StartCall(c)
    /\ m_mutex = NoThread
    /\ m_mutex' = c
    /\ pc' = [pc EXCEPT ![c] = "enqueue"]
    /\ loc' = [loc EXCEPT ![c].op = "populate"]
    /\ EnterUpdate(c)
    /\ UNCHANGED <<auxVars, gridVars, poolVars, flagVars, gen, tickStage, stopMidTick>>

\* task(): a row task of populate runs and its future becomes ready
Worker_Populate(w) ==
    /\ workers[w].busy
    /\ workers' = [workers EXCEPT ![w] = IdleWorker]
    /\ futures' = [futures EXCEPT ![workers[w].task.owner] =
           [k \in 1..Len(@) |-> IF k = workers[w].task.idx + 1 THEN "ready" ELSE @[k]]]
    /\ m_front' = PopulateRows(m_front, workers[w].task.rows)
    /\ m_back' = PopulateRows(m_back, workers[w].task.rows)
    /\ writeCount' = [k \in 1..Len(m_back.mat) |->
           writeCount[k] + Occurrences(workers[w].task.rows, (k - 1) \div m_back.w)]
    /\ UNCHANGED <<auxVars, m_width, m_height, m_updateStrategy, nThreads,
                   m_tasks, pm, m_mutex, flagVars, pc, loc, gen, tickStage,
                   stopMidTick, calls>>

\* process_multi has joined its futures: populate returns, fn returns, the
\* guard of write() is released
PO_Unlock(c) ==
    /\ pc[c] = "swap"
    /\ loc[c].op = "populate"
    /\ m_mutex' = NoThread
    /\ pm' = [pm EXCEPT ![c] = PmNone]
    /\ futures' = [futures EXCEPT ![c] = <<>>]
    /\ Return(c)
    /\ UNCHANGED <<auxVars, gridVars, poolVars, flagVars, histVars, calls>>

\* ------------------------------------------------------------ Grid::clear
\* m_simulation.write(&Grid::clear): the lock is taken
CL_Lock(c) ==
    /\ StartCall(c)
    /\ m_mutex = NoThread
    /\ m_mutex' = c
    /\ pc' = [pc EXCEPT ![c] = "cl_body"]
    /\ loc' = [loc EXCEPT ![c].op = "clear"]
    /\ UNCHANGED <<auxVars, gridVars, poolVars, pm, futures, flagVars, histVars>>

\* a clear() that resets the front buffer only
CL_Body_frontOnly(c) ==
    /\ pc[c] = "cl_body"
    /\ m_front' = UM_new(m_width, m_height, DEAD_STATE)
    /\ m_mutex' = NoThread
    /\ Return(c)
    /\ UNCHANGED <<auxVars, m_back, m_width, m_height, m_updateStrategy, poolVars, pm,
                   futures, flagVars, histVars, calls>>

\* clear(): m_back = m_front = { m_width, m_height, DEAD_STATE }; then the
\* guard of write() is released
CL_Body(c) ==
    /\ pc[c] = "cl_body"
    /\ m_front' = UM_new(m_width, m_height, DEAD_STATE)
    /\ m_back' = m_front'
    /\ m_mutex' = NoThread
    /\ Return(c)
    /\ UNCHANGED <<auxVars, m_width, m_height, m_updateStrategy, poolVars, pm,
                   futures, flagVars, histVars, calls>>

\* ------------------------------------------------- a task that throws
\* task(): func throws in row k + 1 of the task, after the rows before it
\* were written; the packaged_task stores the exception in its future
Worker_Throw(w) ==
    /\ workers[w].busy
    /\ workers[w].task.rows /= <<>>
    /\ workers' = [workers EXCEPT ![w] = IdleWorker]
    /\ futures' = [futures EXCEPT ![workers[w].task.owner] =
           [k \in 1..Len(@) |-> IF k = workers[w].task.idx + 1 THEN "error" ELSE @[k]]]
    /\ \E n \in 0..(Len(workers[w].task.rows) - 1) :
          LET done == SubSeq(workers[w].task.rows, 1, n)
          IN  /\ m_back' = RunRows(m_front, m_back, done)
              /\ writeCount' = [k \in 1..Len(m_back.mat) |->
                     writeCount[k] + Occurrences(done, (k - 1) \div m_back.w)]
    /\ UNCHANGED <<auxVars, m_front, m_width, m_height, m_updateStrategy, nThreads,
                   m_tasks, pm, m_mutex, flagVars, pc, loc, gen, tickStage,
                   stopMidTick, calls>>

\* a join loop that catches the exception of future.get() and goes on
US_Fail_swallow(t) ==
    /\ pc[t] = "join"
    /\ pm[t].j < pm[t].n
    /\ futures[t][pm[t].j + 1] = "error"
    /\ pm' = [pm EXCEPT ![t].j = @ + 1]
    /\ pc' = [pc EXCEPT ![t] = IF pm[t].j + 1 = pm[t].n THEN "swap" ELSE "join"]
    /\ UNCHANGED <<auxVars, poolVars, gridVars, futures, m_mutex, flagVars, loc,
                   histVars, calls>>

\* for (auto& future : futures) future.get(): get() rethrows the stored
\* exception; it leaves process_multi, updateState() before the swap, the
\* lambda of write() and the function of m_thread, where nothing catches it:
\* std::terminate ends the process
US_Fail(t) ==
    /\ pc[t] = "join"
    /\ pm[t].j < pm[t].n
    /\ futures[t][pm[t].j + 1] = "error"
    /\ pc' = [pc EXCEPT ![t] = "terminated"]
    /\ UNCHANGED <<auxVars, poolVars, gridVars, pm, futures, m_mutex, flagVars, loc,
                   histVars, calls>>

\* ------------------------------------------ Grid::Grid, Simulation ctor
\* Grid(width, height, strategy), in the order of the members: m_front and
\* m_back are UnrolledMatrix(width, height), whose std::vector of
\* width * height cells throws when the product is negative; then
\* m_threadPool starts hardware_concurrency() workers.  Nothing looks at the
\* sign of width or height.  Before the call m_width and m_height hold the
\* arguments and stand for them.
Grid_Construct ==
    /\ pc[TickThread] = "unbuilt"
    /\ IF m_width * m_height < 0
       THEN /\ pc' = [pc EXCEPT ![TickThread] = "rejected"]
            /\ UNCHANGED <<m_front, m_back, nThreads, workers, writeCount>>
       ELSE /\ pc' = [pc EXCEPT ![TickThread] = "unlaunched"]
            /\ m_front' = UM_new(m_width, m_height, DEAD_STATE)
            /\ m_back' = UM_new(m_width, m_height, DEAD_STATE)
            /\ nThreads' \in 1..MaxWorkers
            /\ workers' = [w \in 1..nThreads' |-> IdleWorker]
            /\ writeCount' = [k \in 1..(m_width * m_height) |-> 0]
    /\ UNCHANGED <<auxVars, m_width, m_height, m_updateStrategy, m_tasks, pm,
                   futures, m_mutex, flagVars, loc, gen, tickStage, stopMidTick,
                   calls>>

\* processChunked on a grid of height 0: concurrencyLevel is
\* min(pool size, 0) = 0 and chunkSize = m_height / concurrencyLevel divides
\* by zero.  The process is killed, or the division yields some value and
\* the loops over iota(0, 0) submit and await nothing.
US_DivByZero(t) ==
    /\ pc[t] = "enqueue"
    /\ m_updateStrategy = "CHUNKED"
    /\ ChunkedLevel = 0
    /\ \E outcome \in {"crashed", "swap"} : pc' = [pc EXCEPT ![t] = outcome]
    /\ UNCHANGED <<auxVars, gridVars, poolVars, pm, futures, m_mutex, flagVars,
                   loc, histVars, calls>>

\* ------------------------------ ThreadPool used directly by its callers
\* the worker loop: if (m_stop && m_tasks.empty()) return, that leaves
\* tasks in the queue
Worker_Exit_early(w) ==
    /\ w \notin exitedWorkers
    /\ ~workers[w].busy
    /\ m_stop
    /\ exitedWorkers' = exitedWorkers \cup {w}
    /\ UNCHANGED <<m_stop, cvNotified, otherVars, gridVars, poolVars, pm, futures, m_mutex,
                   flagVars, pc, loc, histVars, calls>>

\* the worker loop: if (m_stop && m_tasks.empty()) return
Worker_Exit(w) ==
    /\ w \notin exitedWorkers
    /\ ~workers[w].busy
    /\ m_stop
    /\ m_tasks = <<>>
    /\ exitedWorkers' = exitedWorkers \cup {w}
    /\ UNCHANGED <<m_stop, cvNotified, otherVars, gridVars, poolVars, pm, futures, m_mutex,
                   flagVars, pc, loc, histVars, calls>>

\* the number of tasks given to enqueue so far
Enqueued == Len(futures["c1"]) + Len(futures["c2"])

\* enqueue(fn): under the pool's lock m_tasks.emplace(...), then
\* notify_one(); the future is returned.  m_stop is not looked at.  The
\* task does not touch the grid; its tag tells whether m_stop was set when
\* it was enqueued.
Pool_Enqueue(c) ==
    /\ pc[c] = "idle"
    /\ Enqueued < MaxTasks
    /\ m_tasks' = Append(m_tasks, [owner |-> c, idx |-> Len(futures[c]),
                                   rows |-> <<>>, tag |-> IF m_stop THEN 1 ELSE 0])
    /\ futures' = [futures EXCEPT ![c] = Append(@, "pending")]
    /\ UNCHANGED <<auxVars, nThreads, workers, gridVars, pm, m_mutex, flagVars,
                   pc, loc, histVars, calls>>

\* the futures after m_tasks.clear(): a packaged_task destroyed before it
\* ran leaves a broken promise in its future
ClearTasks(q, fs) ==
    [t \in Threads |-> [k \in 1..Len(fs[t]) |->
        IF \E n \in 1..Len(q) : q[n].owner = t /\ q[n].idx + 1 = k
        THEN "broken" ELSE fs[t][k]]]

\* stopPool(ignoreQueuedTasks): under the pool's lock, clear the queue if
\* told to, m_stop = true; then notify_all().  The pool is stopped once.
SP_Lock(c) ==
    /\ StartCall(c)
    /\ ~m_stop
    /\ \E ignoreQueuedTasks \in BOOLEAN :
          /\ m_tasks' = IF ignoreQueuedTasks THEN <<>> ELSE m_tasks
          /\ futures' = IF ignoreQueuedTasks THEN ClearTasks(m_tasks, futures)
                        ELSE futures
          /\ loc' = [loc EXCEPT ![c].op = "stopPool",
                                ![c].discard = ignoreQueuedTasks]
    /\ m_stop' = TRUE
    /\ pc' = [pc EXCEPT ![c] = "sp_join"]
    /\ UNCHANGED <<exitedWorkers, cvNotified, otherVars, nThreads, workers, gridVars, pm,
                   m_mutex, flagVars, histVars>>

\* stopPool: for (auto& thread : m_threads) if (thread.joinable()) thread.join()
SP_Join(c) ==
    /\ pc[c] = "sp_join"
    /\ Workers \subseteq exitedWorkers
    /\ Return(c)
    /\ UNCHANGED <<auxVars, gridVars, poolVars, pm, futures, m_mutex, flagVars,
                   histVars, calls>>

\* --------------------------------------------------------- specifications
\* Grid(width, height, strategy) and Simulation(..., delay): both buffers
\* value-initialised, the pool created with one of poolSizes workers, no
\* thread launched
InitCommon(w, h, poolSizes) ==
    /\ m_width = w
    /\ m_height = h
    /\ m_back = UM_new(w, h, DEAD_STATE)
    /\ m_updateStrategy \in {"INTERLEAVED", "CHUNKED"}
    /\ nThreads \in poolSizes
    /\ m_tasks = <<>>
    /\ workers = [w2 \in 1..nThreads |-> IdleWorker]
    /\ pm = [t \in Threads |-> PmNone]
    /\ futures = [t \in Threads |-> <<>>]
    /\ m_mutex = NoThread
    /\ m_paused = FALSE
    /\ m_ignoreDelay = FALSE
    /\ m_wakeFlag = FALSE
    /\ stopRequested = FALSE
    /\ pc = [t \in Threads |-> IF t = TickThread THEN "unlaunched" ELSE "idle"]
    /\ loc = [t \in Threads |-> NoLoc]
    /\ gen = 0
    /\ writeCount = [k \in 1..(w * h) |-> 0]
    /\ tickStage = "none"
    /\ stopMidTick = FALSE
    /\ calls = 0
    /\ m_stop = FALSE
    /\ exitedWorkers = {}
    /\ cvNotified = FALSE
    /\ deadlinePassed = FALSE
    /\ asleep = {}

\* the grid as painted through write() before launch()
InitGrid ==
    \E d \in GridDims :
        /\ InitCommon(d[1], d[2], 1..MaxWorkers)
        /\ m_front \in {[w |-> d[1], h |-> d[2], mat |-> f] :
                          f \in [1..(d[1] * d[2]) -> InitCells]}
        /\ m_delay = 5
        /\ spawnTests = <<>>

\* the driver after construction, on a machine with one hardware thread or
\* with MaxWorkers
Init ==
    /\ InitCommon(DriverDim[1], DriverDim[2], {1, MaxWorkers})
    /\ m_front = UM_new(DriverDim[1], DriverDim[2], DEAD_STATE)
    /\ m_delay = 100
    /\ spawnTests = <<>>

\* a row task that takes the grid lock for its rows
Worker_Run_gridLock(w) ==
    /\ m_mutex = NoThread
    /\ Worker_Run(w)

\* the pool's workers
WorkerNext_gridLock ==
    \E w \in Workers : Worker_Take(w) \/ Worker_Run_gridLock(w)

WorkerNext ==
    \E w \in Workers : Worker_Take(w) \/ Worker_Run(w)

TickNext ==
    \/ Launch
    \/ TickLoop
    \/ TickAcquire
    \/ US_Enqueue(TickThread)
    \/ US_Join(TickThread)
    \/ US_Swap(TickThread)
    \/ TickCallback
    \/ TickSleepCheck
    \/ TickSleepLock
    \/ TickWait
    \/ TickBlock
    \/ TickWaitReturn
    \/ TickWakeReset

ClientNext ==
    \E c \in Clients :
        \/ FU_Wake(c)
        \/ FU_Check(c)
        \/ FU_Lock(c)
        \/ US_Enqueue(c)
        \/ US_Join(c)
        \/ US_Swap(c)
        \/ FU_Unlock(c)
        \/ WR_Lock(c)
        \/ WR_Body(c)
        \/ RD_Lock(c)
        \/ RD_First(c)
        \/ RD_Second(c)
        \/ RD_Unlock(c)
        \/ ST_Request(c)
        \/ ST_Wake(c)
        \/ ST_Join(c)
        \/ SetPause(c)
        \/ TG_Load(c)
        \/ TG_Store(c)
        \/ SD_Check(c)
        \/ SD_StoreDec(c)
        \/ SD_Wake(c)
        \/ SD_StoreInc(c)
        \/ WakeUp(c)
        \/ SetIgnoreDelay(c)

NextGrid == TickNext \/ WorkerNext
Next == TickNext \/ WorkerNext \/ ClientNext

\* the tick loop alone, over every initial front buffer
SpecGrid == InitGrid /\ [][NextGrid]_vars

\* the driver with its client threads
Spec == Init /\ [][Next]_vars

\* before construction: the constructor's arguments, no buffer, no worker
InitCtor ==
    /\ \E d \in CtorDims : m_width = d[1] /\ m_height = d[2]
    /\ m_front = UM_new(0, 0, DEAD_STATE)
    /\ m_back = UM_new(0, 0, DEAD_STATE)
    /\ m_updateStrategy \in {"INTERLEAVED", "CHUNKED"}
    /\ nThreads = 0
    /\ m_tasks = <<>>
    /\ workers = <<>>
    /\ pm = [t \in Threads |-> PmNone]
    /\ futures = [t \in Threads |-> <<>>]
    /\ m_mutex = NoThread
    /\ m_paused = FALSE
    /\ m_ignoreDelay = FALSE
    /\ m_wakeFlag = FALSE
    /\ m_delay = 5
    /\ stopRequested = FALSE
    /\ pc = [t \in Threads |-> IF t = TickThread THEN "unbuilt" ELSE "idle"]
    /\ loc = [t \in Threads |-> NoLoc]
    /\ gen = 0
    /\ writeCount = <<>>
    /\ tickStage = "none"
    /\ stopMidTick = FALSE
    /\ calls = 0
    /\ m_stop = FALSE
    /\ exitedWorkers = {}
    /\ cvNotified = FALSE
    /\ deadlinePassed = FALSE
    /\ asleep = {}
    /\ spawnTests = <<>>

NextCtor == Grid_Construct \/ US_DivByZero(TickThread) \/ TickNext \/ WorkerNext

\* construction from any arguments, then the tick loop
SpecCtor == InitCtor /\ [][NextCtor]_vars

\* the driver's grid painted with any cells before launch()
InitFail ==
    /\ InitCommon(DriverDim[1], DriverDim[2], 1..MaxWorkers)
    /\ m_front \in {[w |-> DriverDim[1], h |-> DriverDim[2], mat |-> f] :
                      f \in [1..(DriverDim[1] * DriverDim[2]) -> InitCells]}
    /\ m_delay = 5
    /\ spawnTests = <<>>

\* the workers run as long as the process has not been terminated
NextFail ==
    \/ TickNext
    \/ US_Fail(TickThread)
    \/ pc[TickThread] /= "terminated" /\ WorkerNext
    \/ pc[TickThread] /= "terminated" /\ \E w \in Workers : Worker_Throw(w)

\* the tick loop with row tasks that may throw
SpecFail == InitFail /\ [][NextFail]_vars

\* a grid whose buffers hold anything, and the outcomes of the two tests of
\* populate for every cell
InitPopulate ==
    /\ InitCommon(PopulateDim[1], PopulateDim[2], 1..MaxWorkers)
    /\ m_front \in {[w |-> PopulateDim[1], h |-> PopulateDim[2], mat |-> f] :
                      f \in {[k \in 1..(PopulateDim[1] * PopulateDim[2]) |-> v] :
                                v \in InitCells}}
    /\ m_delay = 100
    /\ spawnTests \in [1..(PopulateDim[1] * PopulateDim[2]) ->
                          [noise : BOOLEAN, uniform : BOOLEAN]]

NextPopulate ==
    \/ \E w \in Workers : Worker_Take(w) \/ Worker_Populate(w)
    \/ \E c \in Clients : PO_Lock(c) \/ US_Enqueue(c) \/ US_Join(c) \/ PO_Unlock(c)

\* populate() called through write() on a grid that is not ticking
SpecPopulate == InitPopulate /\ [][NextPopulate]_vars

\* a grid with no DEAD cell in its front buffer
InitClear ==
    /\ InitCommon(PopulateDim[1], PopulateDim[2], 1..MaxWorkers)
    /\ m_front \in {[w |-> PopulateDim[1], h |-> PopulateDim[2], mat |-> f] :
                      f \in [1..(PopulateDim[1] * PopulateDim[2]) -> ClearCells]}
    /\ m_delay = 5
    /\ spawnTests = <<>>

NextClear ==
    \/ TickNext
    \/ WorkerNext
    \/ \E c \in Clients : CL_Lock(c) \/ CL_Body(c)

\* the tick loop and clients that reset the grid
SpecClear == InitClear /\ [][NextClear]_vars

\* a vertical line of three LIVE cells at column 5, rows 4 to 6, painted
\* through write() before launch(); the back buffer is as constructed
InitBlinker ==
    /\ InitCommon(BlinkerDim[1], BlinkerDim[2], BlinkerPools)
    /\ m_front = [w |-> BlinkerDim[1], h |-> BlinkerDim[2],
                  mat |-> [k \in 1..(BlinkerDim[1] * BlinkerDim[2]) |->
                      IF (k - 1) % BlinkerDim[1] = 5 /\ (k - 1) \div BlinkerDim[1] \in 4..6
                      THEN LIVE_STATE ELSE DEAD_STATE]]
    /\ m_delay = 5
    /\ spawnTests = <<>>

\* process_multi with the tasks i, i + 1, ... run one after the other
RECURSIVE RunTasks(_, _, _)
RunTasks(f, back, i) ==
    IF i >= NumTasks THEN back
    ELSE RunTasks(f, RunRows(f, back, TaskRows(i)), i + 1)

\* updateState() as a whole, on a grid nothing else touches: process_multi,
\* then m_front.swap(m_back)
UpdateState_upTo(maxGen) ==
    /\ gen < maxGen
    /\ m_front' = RunTasks(m_front, m_back, 0)
    /\ m_back' = m_front
    /\ gen' = gen + 1
    /\ UNCHANGED <<auxVars, m_width, m_height, m_updateStrategy, poolVars, pm,
                   futures, m_mutex, flagVars, pc, loc, writeCount, tickStage,
                   stopMidTick, calls>>

UpdateState_whole == UpdateState_upTo(MaxBlinkerGen)

\* updateState() called again and again on the blinker
SpecBlinker == InitBlinker /\ [][UpdateState_whole]_vars

\* a grid with one LIVE cell anywhere and no other cell alive or decaying:
\* on the torus of TrailDim the cell has no live neighbour and every other
\* cell has one
InitTrail ==
    /\ InitCommon(TrailDim[1], TrailDim[2], 1..MaxWorkers)
    /\ \E c \in 1..(TrailDim[1] * TrailDim[2]) :
          m_front = [w |-> TrailDim[1], h |-> TrailDim[2],
                     mat |-> [k \in 1..(TrailDim[1] * TrailDim[2]) |->
                         IF k = c THEN LIVE_STATE ELSE DEAD_STATE]]
    /\ m_delay = 5
    /\ spawnTests = <<>>

UpdateState_trail == UpdateState_upTo(MaxTrail)

\* updateState() called again and again on the lone cell
SpecTrail == InitTrail /\ [][UpdateState_trail]_vars

\* the driver constructed with any delay
InitDelay ==
    /\ InitCommon(DriverDim[1], DriverDim[2], {1})
    /\ m_front = UM_new(DriverDim[1], DriverDim[2], DEAD_STATE)
    /\ m_delay \in AnyDelays
    /\ spawnTests = <<>>

NextDelay ==
    \/ TickNext
    \/ WorkerNext
    \/ \E c \in Clients :
          SD_CheckAny(c) \/ SD_StoreDec(c) \/ SD_Wake(c) \/ SD_StoreInc(c)

\* the tick loop and clients that call setDelay()
SpecDelay == InitDelay /\ [][NextDelay]_vars

\* grids of one column and any height up to MaxRows, on pools of up to
\* MaxWorkers + 1 workers: heights below, equal to, a multiple of and not a
\* multiple of the pool size
InitPartition ==
    \E h \in 1..MaxRows :
        /\ InitCommon(1, h, 1..(MaxWorkers + 1))
        /\ m_front = UM_new(1, h, DEAD_STATE)
        /\ m_delay = 5
        /\ spawnTests = <<>>

\* the tick loop over grids of every height
SpecPartition == InitPartition /\ [][NextGrid]_vars

\* ------------------------------------------- Grid::operator() on int
IntMin == -(2^(IntBits - 1))
IntMax == 2^(IntBits - 1) - 1
IntRange == IntMin..IntMax

\* a + b on int: the sum, or, on signed overflow (undefined behaviour), any
\* int
IntAdd(a, b) == IF a + b \in IntRange THEN {a + b} ELSE IntRange

\* the values (n + v % n) % n can take in int arithmetic
EffCoordInt(v, n) == {CRem(s, n) : s \in IntAdd(n, CRem(v, n))}

\* the smallest side whose double exceeds the largest int
BigSide == 2^(IntBits - 2) + 1

\* the grids of the accesses: a small one, and one column or one row of
\* BigSide cells
CoordDims == {<<2, 3>>, <<1, BigSide>>, <<BigSide, 1>>}

\* grid(xPos, yPos) for any two ints: the effective coordinates and the cell
\* or the exception of get(effX, effY); the access reads the grid and changes
\* nothing, one access is followed at a time
Grid_Access(c) ==
    /\ StartCall(c)
    /\ \A d \in Clients : pc[d] = "idle"
    /\ \E xPos, yPos \in IntRange :
          \E effX \in (IF isInBound(xPos, yPos) THEN {xPos}
                       ELSE EffCoordInt(xPos, m_width)),
             effY \in (IF isInBound(xPos, yPos) THEN {yPos}
                       ELSE EffCoordInt(yPos, m_height)) :
              loc' = [loc EXCEPT ![c] = [NoLoc EXCEPT !.op = "access",
                                                      !.x = xPos, !.y = yPos,
                                                      !.snap = <<effX, effY>>,
                                                      !.v = Grid_get(m_front, effX, effY)]]
    /\ pc' = [pc EXCEPT ![c] = "accessed"]
    /\ UNCHANGED <<auxVars, poolVars, gridVars, pm, futures, m_mutex, flagVars,
                   histVars>>

\* the access returns its cell or its exception
Grid_AccessReturn(c) ==
    /\ pc[c] = "accessed"
    /\ Return(c)
    /\ UNCHANGED <<auxVars, poolVars, gridVars, pm, futures, m_mutex, flagVars,
                   histVars, calls>>

InitCoord ==
    \E d \in CoordDims :
        /\ InitCommon(d[1], d[2], {1})
        /\ m_front = UM_new(d[1], d[2], LIVE_STATE)
        /\ m_delay = 5
        /\ spawnTests = <<>>

NextCoord == \E c \in Clients : Grid_Access(c) \/ Grid_AccessReturn(c)

\* accesses through Grid::operator() with every pair of int coordinates
SpecCoord == InitCoord /\ [][NextCoord]_vars

\* the driver with the clock of its sleep routine
InitSleep ==
    /\ InitCommon(DriverDim[1], DriverDim[2], {1})
    /\ m_front = UM_new(DriverDim[1], DriverDim[2], DEAD_STATE)
    /\ m_delay \in DelayVals
    /\ spawnTests = <<>>

TickNextSleep ==
    \/ Launch
    \/ TickLoop
    \/ TickAcquire
    \/ US_Enqueue(TickThread)
    \/ US_Join(TickThread)
    \/ US_Swap(TickThread)
    \/ TickCallback
    \/ TickSleepCheck
    \/ TickSleepLock
    \/ TickWait
    \/ TickBlock
    \/ TK_Expire
    \/ TK_Timeout
    \/ TK_Wakeup
    \/ TickWakeReset

ClientNextSleep ==
    \E c \in Clients :
        \/ FU_Wake(c)
        \/ FU_Check(c)
        \/ FU_Lock(c)
        \/ US_Enqueue(c)
        \/ US_Join(c)
        \/ US_Swap(c)
        \/ FU_Unlock(c)
        \/ WR_Lock(c)
        \/ WR_Body(c)
        \/ ST_Request(c)
        \/ ST_Wake(c)
        \/ ST_Join(c)
        \/ SetPause(c)
        \/ SD_CheckSleep(c)
        \/ SD_StoreDec(c)
        \/ SD_Wake(c)
        \/ SD_StoreInc(c)
        \/ WakeUp(c)
        \/ SetIgnoreDelay(c)

NextSleep == TickNextSleep \/ WorkerNext \/ ClientNextSleep

SpecSleep == InitSleep /\ [][NextSleep]_vars

\* the pool alone, its clients calling enqueue() and stopPool()
InitPool ==
    /\ InitCommon(DriverDim[1], DriverDim[2], 1..MaxWorkers)
    /\ m_front = UM_new(DriverDim[1], DriverDim[2], DEAD_STATE)
    /\ m_delay = 100
    /\ spawnTests = <<>>

NextPool ==
    \/ WorkerNext
    \/ \E w \in Workers : Worker_Exit(w)
    \/ \E c \in Clients : Pool_Enqueue(c) \/ SP_Lock(c) \/ SP_Join(c)

SpecPool == InitPool /\ [][NextPool]_vars

\* the steps that take a client thread on inside the method it has entered
ClientStep(c) ==
    \/ FU_Check(c)
    \/ US_Enqueue(c)
    \/ US_Join(c)
    \/ US_Swap(c)
    \/ FU_Unlock(c)
    \/ ST_Wake(c)
    \/ ST_Join(c)
    \/ SD_StoreDec(c)
    \/ SD_Wake(c)
    \/ SD_StoreInc(c)

\* the scheduler runs every thread that can take a step, and a thread that
\* waits for the grid lock gets it if the lock keeps becoming free; when a
\* client calls a method is up to the client
Fairness ==
    /\ WF_vars(TickNext)
    /\ WF_vars(WorkerNext)
    /\ \A c \in Clients : WF_vars(ClientStep(c)) /\ SF_vars(FU_Lock(c))

\* the driver on a machine with MaxWorkers hardware threads
InitLive ==
    /\ InitCommon(DriverDim[1], DriverDim[2], {MaxWorkers})
    /\ m_front = UM_new(DriverDim[1], DriverDim[2], DEAD_STATE)
    /\ m_delay = 100
    /\ spawnTests = <<>>

\* the clients call forceUpdate(), stop(), setPause() and setDelay() only
ClientNextLive ==
    \E c \in Clients :
        \/ FU_Wake(c)
        \/ FU_Check(c)
        \/ FU_Lock(c)
        \/ US_Enqueue(c)
        \/ US_Join(c)
        \/ US_Swap(c)
        \/ FU_Unlock(c)
        \/ ST_Request(c)
        \/ ST_Wake(c)
        \/ ST_Join(c)
        \/ SetPause(c)
        \/ SD_Check(c)
        \/ SD_StoreDec(c)
        \/ SD_Wake(c)
        \/ SD_StoreInc(c)

NextLive == TickNext \/ WorkerNext \/ ClientNextLive

\* the driver under a fair scheduler
SpecLive == InitLive /\ [][NextLive]_vars /\ Fairness

\* the steps of the tick thread that the scheduler decides: all but the
\* passing of time and the end of the wait
TickRun ==
    \/ Launch
    \/ TickLoop
    \/ TickAcquire
    \/ US_Enqueue(TickThread)
    \/ US_Join(TickThread)
    \/ US_Swap(TickThread)
    \/ TickCallback
    \/ TickSleepCheck
    \/ TickSleepLock
    \/ TickWait
    \/ TickBlock
    \/ TickWakeReset

\* the clients call write(fn), setPause() and wakeUp()
ClientNextWrite ==
    \E c \in Clients :
        WR_Call(c) \/ WR_Acquire(c) \/ WR_Body(c) \/ SetPause(c) \/ WakeUp(c)

NextWrite ==
    \/ TickRun
    \/ TK_Expire
    \/ TK_Timeout
    \/ TK_Wakeup
    \/ WorkerNext
    \/ ClientNextWrite

\* the scheduler runs every thread that can take a step and a thread that
\* waits for the grid lock gets it if the lock keeps becoming free; nothing
\* makes the deadline of a sleep pass or the sleeping thread wake
FairnessWrite ==
    /\ WF_vars(TickRun)
    /\ WF_vars(WorkerNext)
    /\ \A c \in Clients : WF_vars(WR_Body(c)) /\ SF_vars(WR_Acquire(c))

\* the driver and clients that write, under a fair scheduler
SpecWrite == InitLive /\ [][NextWrite]_vars /\ FairnessWrite

\* ------------------------------------------------------------- properties
\* the tick thread is between updateState() and the callback: m_front is the
\* generation just produced, m_back the front buffer it was produced from
TickUpdated == pc[TickThread] = "callback" /\ tickStage = "swapped"

Cells == {xy \in (0..(m_width - 1)) \X (0..(m_height - 1)) : TRUE}

\* the transition rule as it is stated: n counts the 8 toroidal neighbours
\* that equal LIVE, decay(v) = 0 if v = 0 else v - 1
RuleAlive(old, x, y) ==
    old.mat[((y + old.h) % old.h) * old.w + ((x + old.w) % old.w) + 1] = LIVE_STATE
RuleN(old, x, y) ==
    Cardinality({d \in ({-1, 0, 1} \X {-1, 0, 1}) \ {<<0, 0>>} :
                    RuleAlive(old, x + d[1], y + d[2])})
RuleDecay(v) == IF v = 0 THEN 0 ELSE v - 1
RuleNext(old, x, y) ==
    LET current == old.mat[y * old.w + x + 1]
        n == RuleN(old, x, y)
    IN  IF (current = LIVE_STATE /\ n \in {2, 3}) \/ (current /= LIVE_STATE /\ n = 3)
        THEN LIVE_STATE
        ELSE RuleDecay(current)

\* C1: when updateState() has returned, every cell (x, y) of the new front
\* buffer holds LIVE if (current = LIVE and n in {2,3}) or (current /= LIVE
\* and n = 3), and decay(current) otherwise, computed from the previous front
\* buffer.
C1_TransitionRule ==
    TickUpdated =>
        \A xy \in Cells :
            m_front.mat[xy[2] * m_width + xy[1] + 1] = RuleNext(m_back, xy[1], xy[2])

\* C2 (as stated): get(-1, y) = get(width-1, y), get(width, y) = get(0, y),
\* get(x, -1) = get(x, height-1) and get(x, height) = get(x, 0), for Grid::get.
C2_GetWraps ==
    /\ \A y \in 0..(m_height - 1) :
          /\ Grid_get(m_front, -1, y) = Grid_get(m_front, m_width - 1, y)
          /\ Grid_get(m_front, m_width, y) = Grid_get(m_front, 0, y)
    /\ \A x \in 0..(m_width - 1) :
          /\ Grid_get(m_front, x, -1) = Grid_get(m_front, x, m_height - 1)
          /\ Grid_get(m_front, x, m_height) = Grid_get(m_front, x, 0)

\* C2 (amended): the wraparound holds for Grid::operator(): grid(-1, y) =
\* grid(width-1, y), grid(width, y) = grid(0, y), grid(x, -1) =
\* grid(x, height-1) and grid(x, height) = grid(x, 0), each side a cell value.
C2_CallWraps ==
    /\ \A y \in 0..(m_height - 1) :
          /\ Grid_call(m_front, -1, y) = Grid_call(m_front, m_width - 1, y)
          /\ Grid_call(m_front, m_width, y) = Grid_call(m_front, 0, y)
          /\ Grid_call(m_front, -1, y) /= OutOfRange
          /\ Grid_call(m_front, m_width, y) /= OutOfRange
    /\ \A x \in 0..(m_width - 1) :
          /\ Grid_call(m_front, x, -1) = Grid_call(m_front, x, m_height - 1)
          /\ Grid_call(m_front, x, m_height) = Grid_call(m_front, x, 0)
          /\ Grid_call(m_front, x, -1) /= OutOfRange
          /\ Grid_call(m_front, x, m_height) /= OutOfRange

\* a produced generation in which the wrapped neighbour of column 0 is alive
\* and column 0 itself is not, and the same across the rows
C2_Witness ==
    /\ gen >= 1
    /\ \E y \in 0..(m_height - 1) :
          /\ Grid_call(m_front, -1, y) = LIVE_STATE
          /\ Grid_call(m_front, 0, y) /= LIVE_STATE
    /\ \E x \in 0..(m_width - 1) :
          /\ Grid_call(m_front, x, m_height) = LIVE_STATE
          /\ Grid_call(m_front, x, m_height - 1) /= LIVE_STATE

\* C3: when updateState() has returned, every cell of the new front buffer
\* has been written exactly once by the row tasks of that call.
C3_WrittenExactlyOnce ==
    TickUpdated => \A k \in 1..Len(writeCount) : writeCount[k] = 1

\* C4: the generation updateState() produces is the one a single worker
\* produces from the same front buffer, whatever the worker count, the
\* interleaving of the tasks and the strategy.
C4_Deterministic ==
    TickUpdated =>
        m_front.mat = RunRows(m_back, m_front,
                              [r \in 1..m_height |-> r - 1]).mat

C6_NoOverlap ==
    /\ Cardinality({t \in Threads : InUpdateState(t)}) <= 1
    /\ \A k \in 1..Len(m_tasks) : InUpdateState(m_tasks[k].owner)
    /\ \A w \in Workers : workers[w].busy => InUpdateState(workers[w].task.owner)

\* the tick thread is inside updateState() while a forceUpdate() that read
\* paused = true waits for the grid lock
C6_Witness ==
    /\ InUpdateState(TickThread)
    /\ \E c \in Clients : pc[c] = "fu_lock"

\* a thread is inside a function passed to write or read, inside
\* updateState(), or inside the per-tick callback
InGuarded(t) ==
    pc[t] \in {"wr_body", "rd_first", "rd_second", "rd_unlock",
               "enqueue", "join", "swap", "callback", "fu_unlock"}

\* C7: a thread inside a write/read function, updateState() or the callback
\* holds the grid lock, so no two of them run at once; what a reader has
\* copied is the front buffer as it is now.
C7_GuardedAccess ==
    /\ \A t \in Threads : InGuarded(t) => m_mutex = t
    /\ \A c \in Clients :
          /\ pc[c] = "rd_second" =>
                loc[c].snap = SubSeq(m_front.mat, 1, Len(m_front.mat) \div 2)
          /\ pc[c] = "rd_unlock" => loc[c].snap = m_front.mat

\* a reader is half way through its copy of a produced generation while the
\* tick thread waits for the grid lock
C7_Witness ==
    /\ gen >= 1
    /\ pc[TickThread] = "lock"
    /\ \E c \in Clients : pc[c] = "rd_second"

C9_Barrier ==
    /\ \A k \in 1..Len(m_tasks) :
          /\ m_tasks[k].tag = gen
          /\ pc[m_tasks[k].owner] \in {"enqueue", "join"}
    /\ \A w \in Workers :
          workers[w].busy =>
              /\ workers[w].task.tag = gen
              /\ pc[workers[w].task.owner] \in {"enqueue", "join"}
    /\ \A t \in Threads :
          pc[t] = "swap" =>
              \A k \in 1..Len(futures[t]) : futures[t][k] = "ready"

\* a row task of the second generation is running
C9_Witness ==
    /\ gen >= 1
    /\ \E w \in Workers : workers[w].busy /\ workers[w].task.tag = gen

\* C10: the tick thread exits only from the loop test; when it has exited,
\* its last tick, if any, ran to the end of the callback: no row task of it
\* is left, it holds no lock.
C10_NoTornGeneration ==
    /\ [][(pc[TickThread] /= "exited" /\ pc'[TickThread] = "exited")
             => pc[TickThread] = "loop"]_vars
    /\ [](pc[TickThread] = "exited" =>
             /\ tickStage \in {"none", "called"}
             /\ m_mutex /= TickThread
             /\ futures[TickThread] = <<>>
             /\ \A k \in 1..Len(m_tasks) : m_tasks[k].owner /= TickThread
             /\ \A w \in Workers :
                   workers[w].busy => workers[w].task.owner /= TickThread)

\* stop() was called while a tick was in progress and the thread has exited
\* after completing it
C10_Witness ==
    /\ pc[TickThread] = "exited"
    /\ stopMidTick
    /\ gen >= 1
    /\ tickStage = "called"

\* C12: once a setDelay() that lowered the delay has returned, the tick
\* thread is not left sleeping towards the deadline of the delay it had
\* loaded before: it has been notified, so it wakes before that deadline.
C12_WakesBeforeOldDeadline ==
    ~ ( /\ pc[TickThread] = "blocked"
        /\ loc[TickThread].delay /= s_lazyUpdateTime
        /\ loc[TickThread].delay > m_delay
        /\ \A c \in Clients : pc[c] \notin {"sd_dec", "sd_wake"}
        /\ ~cvNotified )

\* C13: from the front buffer updateState() started from to the one it
\* produced, every cell either became LIVE or went down by one, saturating
\* at DEAD.
C13_Monotone ==
    TickUpdated =>
        \A k \in 1..Len(m_front.mat) :
            \/ m_front.mat[k] = LIVE_STATE
            \/ m_front.mat[k] = (IF m_back.mat[k] = DEAD_STATE THEN DEAD_STATE
                                 ELSE m_back.mat[k] - 1)

\* a thread has come out of updateState(): m_front is the generation it
\* produced, m_back the front buffer it started from
Updated(t) ==
    /\ pc[t] = AfterUpdate(t)
    /\ t = TickThread => tickStage = "swapped"

GenBoundReached == pc[TickThread] = "lock" /\ gen = MaxGen /\ ~m_paused

\* C11: under fair scheduling a stop() that has requested termination
\* returns (as long as the model lets the tick thread run); it returns only
\* when there is no running tick thread, and a tick thread that has exited
\* takes no further step, so no updateState() and no callback follow.
C11_StopReturns ==
    /\ \A c \in Clients :
          (pc[c] \in {"st_wake", "st_join"}) ~> (pc[c] = "idle" \/ GenBoundReached)
    /\ [][\A c \in Clients :
             (pc[c] = "st_join" /\ pc'[c] = "idle")
                 => pc[TickThread] \in {"unlaunched", "exited"}]_vars
    /\ [][pc[TickThread] = "exited" => pc'[TickThread] = "exited"]_vars

\* stop() has returned after the launched tick thread, which had produced a
\* generation, exited
C11_Witness ==
    /\ pc[TickThread] = "exited"
    /\ stopRequested
    /\ gen >= 1
    /\ \A c \in Clients : pc[c] = "idle"

\* C15: a forceUpdate() that was entered after n generations, while the
\* driver runs, is followed by the completion of an updateState() (the
\* generation count exceeds n), unless the driver is stopped.
C15_ForceUpdateAtLeastOnce ==
    \A c \in Clients : \A n \in 0..(MaxGen - 1) :
        (pc[c] = "fu_check" /\ loc[c].gen0 = n /\ loc[c].running)
            ~> (gen > n \/ stopRequested)

\* task k of thread t is not running on a worker and has not completed
NotStarted(t, k) ==
    /\ \A w \in Workers :
          ~(workers[w].busy /\ workers[w].task.owner = t /\ workers[w].task.idx + 1 = k)
    /\ futures[t][k] /= "ready"

\* C16: when stopPool(false) returns no worker is running a task, the
\* queue holds only tasks enqueued after the call and every other task has
\* run to completion; a task that stopPool(true) removed from the queue is
\* never started and its future never becomes ready, and stopPool(true)
\* returns only when no worker is running a task.
C16_StopPoolDrains ==
    /\ [][\A c \in Clients :
             (pc[c] = "sp_join" /\ pc'[c] = "idle") =>
                 /\ \A w \in Workers : ~workers[w].busy
                 /\ \A n \in 1..Len(m_tasks) : m_tasks[n].tag = 1
                 /\ ~loc[c].discard =>
                       \A t \in Clients : \A k \in 1..Len(futures[t]) :
                           \/ futures[t][k] = "ready"
                           \/ \E n \in 1..Len(m_tasks) :
                                 m_tasks[n].owner = t /\ m_tasks[n].idx + 1 = k]_vars
    /\ [][\A t \in Clients : \A k \in 1..Len(futures[t]) :
             futures[t][k] = "broken" =>
                 /\ futures'[t][k] = "broken"
                 /\ NotStarted(t, k)]_vars

\* stopPool(false) is about to return: every worker has left its loop
\* after the tasks of a client were run
C16_Witness ==
    /\ m_stop
    /\ Workers \subseteq exitedWorkers
    /\ \E c \in Clients : pc[c] = "sp_join" /\ ~loc[c].discard
    /\ \E t \in Clients : Len(futures[t]) >= 2 /\ \A k \in 1..Len(futures[t]) : futures[t][k] = "ready"

\* C17: once stopPool has set m_stop, enqueue adds nothing to the queue.
C17_NoEnqueueAfterStop ==
    [][m_stop => Len(m_tasks') <= Len(m_tasks)]_vars

\* C18: a grid whose width or height is not positive is never built: no
\* worker thread and no tick thread exist for it and updateState never
\* runs on it.
C18_ZeroAreaRejected ==
    (m_width <= 0 \/ m_height <= 0) =>
        /\ nThreads = 0
        /\ pc[TickThread] \in {"unbuilt", "rejected"}

\* a stop() has returned and none is in progress
Stopped ==
    /\ stopRequested
    /\ pc[TickThread] \in {"unlaunched", "exited"}
    /\ \A c \in Clients : pc[c] \notin {"st_wake", "st_join"}

\* C19: after stop() has returned no write(fn) and no read(fn) gets to run
\* fn against the grid.
C19_FailsAfterStop ==
    [][Stopped =>
          \A c \in Clients :
              pc'[c] \in {"wr_body", "rd_first"} => pc[c] = pc'[c]]_vars

\* C20: a row task that threw leaves its exception in its future; when the
\* join loop of updateState() reaches that future the tick ends with the
\* error and does nothing else: the buffers are not swapped, the front
\* buffer and the generation count stay as they were; the swap is reached
\* only when every task of the tick completed without an exception.
C20_FailureSurfaces ==
    /\ [][( /\ pc[TickThread] = "join"
            /\ pm[TickThread].j < pm[TickThread].n
            /\ futures[TickThread][pm[TickThread].j + 1] = "error" )
          => /\ pc'[TickThread] \in {"join", "terminated"}
             /\ m_front' = m_front
             /\ gen' = gen]_vars
    /\ [](pc[TickThread] = "swap" =>
             \A k \in 1..Len(futures[TickThread]) : futures[TickThread][k] = "ready")
    /\ [](pc[TickThread] = "terminated" => tickStage = "updating")

\* the second updateState() ended with the error of a task: the front
\* buffer is the first generation and differs from the back buffer
C20_Witness ==
    /\ pc[TickThread] = "terminated"
    /\ gen = 1
    /\ m_front.mat /= m_back.mat

\* C21: when populate has joined its tasks, every cell of the front buffer
\* is LIVE or DEAD, it is LIVE only if both tests passed for the cell, and
\* the back buffer equals the front buffer cell for cell.
C21_PopulateSetsBoth ==
    \A c \in Clients :
        (pc[c] = "swap" /\ loc[c].op = "populate") =>
            /\ \A k \in 1..Len(m_front.mat) :
                  /\ m_front.mat[k] \in {LIVE_STATE, DEAD_STATE}
                  /\ m_front.mat[k] = LIVE_STATE =>
                        spawnTests[k].noise /\ spawnTests[k].uniform
            /\ m_back.mat = m_front.mat

\* every cell of both buffers is DEAD
BothDead ==
    /\ \A k \in 1..Len(m_front.mat) : m_front.mat[k] = DEAD_STATE
    /\ \A k \in 1..Len(m_back.mat) : m_back.mat[k] = DEAD_STATE

\* C22: clear() leaves both buffers all DEAD with their dimensions, and
\* width, height, strategy, pool, pause flag, delay and generation count as
\* they were; from a cleared grid every step of the tick loop, the steps of
\* updateState() included, leaves both buffers all DEAD.
C22_ClearFrame ==
    /\ [][\A c \in Clients :
             (pc[c] = "cl_body" /\ pc'[c] = "idle") =>
                 /\ BothDead'
                 /\ m_front'.w = m_width /\ m_front'.h = m_height
                 /\ m_back'.w = m_width /\ m_back'.h = m_height
                 /\ Len(m_front'.mat) = m_width * m_height
                 /\ Len(m_back'.mat) = m_width * m_height
                 /\ UNCHANGED <<m_width, m_height, m_updateStrategy, nThreads,
                                m_paused, m_ignoreDelay, m_delay, m_wakeFlag,
                                stopRequested, gen>>]_vars
    /\ [][BothDead => BothDead']_vars

\* an updateState() that began after a clear() has swapped the buffers: no
\* cell was DEAD initially and fewer than three generations have passed
C22_Witness ==
    /\ TickUpdated
    /\ BothDead
    /\ gen <= 2
    /\ calls >= 1

\* the cell at column x, row y of the front buffer
FrontAt(x, y) == m_front.mat[y * m_width + x + 1]

\* C23: after the first updateState() of the blinker exactly row 5, columns
\* 4 to 6 are LIVE, the two ends of the vertical line hold 0xFE and every
\* other cell 0x00; after the second exactly column 5, rows 4 to 6 are LIVE,
\* the two ends of the horizontal line hold 0xFE and every other cell 0x00.
C23_Blinker ==
    /\ gen = 1 =>
          \A x \in 0..(m_width - 1), y \in 0..(m_height - 1) :
              FrontAt(x, y) =
                  IF y = 5 /\ x \in 4..6 THEN LIVE_STATE
                  ELSE IF x = 5 /\ y \in {4, 6} THEN 254
                  ELSE 0
    /\ gen = 2 =>
          \A x \in 0..(m_width - 1), y \in 0..(m_height - 1) :
              FrontAt(x, y) =
                  IF x = 5 /\ y \in 4..6 THEN LIVE_STATE
                  ELSE IF y = 5 /\ x \in {4, 6} THEN 254
                  ELSE 0

\* C24: the delay of the driver is never zero.
C24_DelayPositive == m_delay > 0

\* the coordinates tried against a buffer: some on each side of the range
Probes == ((-2)..(m_width + 1)) \X ((-2)..(m_height + 1))

\* C25: an access to a buffer with a column outside 0..width-1 or a row
\* outside 0..height-1 raises an error: the read yields no cell, the store
\* changes no cell; Grid::get passes its coordinates on unresolved and
\* raises the same error.  In-range accesses yield the cell.
C25_OutOfRangeRaises ==
    \A p \in Probes :
        IF p[1] \in 0..(m_width - 1) /\ p[2] \in 0..(m_height - 1)
        THEN /\ UM_get(m_front, p[1], p[2]) = m_front.mat[p[2] * m_width + p[1] + 1]
             /\ UM_get(m_back, p[1], p[2]) = m_back.mat[p[2] * m_width + p[1] + 1]
        ELSE /\ UM_get(m_front, p[1], p[2]) = OutOfRange
             /\ UM_get(m_back, p[1], p[2]) = OutOfRange
             /\ Grid_get(m_front, p[1], p[2]) = OutOfRange
             /\ UM_set(m_front, p[1], p[2], LIVE_STATE) = m_front
             /\ UM_set(m_back, p[1], p[2], LIVE_STATE) = m_back

\* a generation was produced, the access at column width, row 0 raises the
\* error, and the flat index it would have had is the LIVE cell of column
\* 0, row 1
C25_Witness ==
    /\ gen >= 1
    /\ UM_get(m_front, m_width, 0) = OutOfRange
    /\ UM_get(m_front, 0, 1) = LIVE_STATE
    /\ \A k \in 1..Len(m_front.mat) : m_front.mat[k] /= OutOfRange

\* the row tasks that are queued or running
PoolTasks ==
    {m_tasks[n] : n \in 1..Len(m_tasks)}
        \cup {workers[w].task : w \in {v \in Workers : workers[v].busy}}

\* ceil(a / b) for positive b
CeilDiv(a, b) == (a + b - 1) \div b

\* the rows lo, lo + 1, ..., hi - 1 in order
RowRange(lo, hi) == [k \in 1..(IF hi > lo THEN hi - lo ELSE 0) |-> lo + k - 1]

\* the set of the rows of a task
RowSet(rows) == {rows[n] : n \in 1..Len(rows)}

\* C26: with CHUNKED, H rows and C workers, every submitted task i has the
\* rows i*ceil(H/C) .. min((i+1)*ceil(H/C), H) - 1 in order, and when all
\* tasks are submitted their rows are pairwise disjoint and cover 0..H-1.
C26_ChunkedPartition ==
    m_updateStrategy = "CHUNKED" =>
        /\ \A task \in PoolTasks :
              task.rows = RowRange(task.idx * CeilDiv(m_height, nThreads),
                                   Min((task.idx + 1) * CeilDiv(m_height, nThreads),
                                       m_height))
        /\ pc[TickThread] = "join" =>
              /\ UNION {RowSet(TaskRows(i)) : i \in 0..(pm[TickThread].n - 1)}
                     = 0..(m_height - 1)
              /\ \A i, j \in 0..(pm[TickThread].n - 1) :
                     i /= j => RowSet(TaskRows(i)) \cap RowSet(TaskRows(j)) = {}

\* the rows of 0..H-1 that are congruent to i modulo the worker count
RowsOfResidue(i) == {y \in 0..(m_height - 1) : y % nThreads = i}

\* C27: with INTERLEAVED and C workers, every submitted task i has exactly the
\* rows y of 0..H-1 with y mod C = i, in increasing order, so none at or
\* beyond H; C tasks are submitted, and their row sets are pairwise disjoint
\* and cover 0..H-1.
C27_InterleavedPartition ==
    m_updateStrategy = "INTERLEAVED" =>
        /\ \A task \in PoolTasks :
              /\ RowSet(task.rows) = RowsOfResidue(task.idx)
              /\ \A n \in 1..(Len(task.rows) - 1) : task.rows[n] < task.rows[n + 1]
        /\ pc[TickThread] = "join" =>
              /\ pm[TickThread].n = nThreads
              /\ \A i \in 0..(nThreads - 1) :
                     RowSet(InterleavedRows(i)) = RowsOfResidue(i)
              /\ UNION {RowSet(InterleavedRows(i)) : i \in 0..(nThreads - 1)}
                     = 0..(m_height - 1)
              /\ \A i, j \in 0..(nThreads - 1) :
                     i /= j => RowSet(InterleavedRows(i)) \cap RowSet(InterleavedRows(j)) = {}

\* a worker runs an interleaved task that holds a remainder row, on a grid
\* whose height is not a multiple of the worker count, while another task of
\* the same generation has no row at all or one row fewer
C27_Witness ==
    /\ m_updateStrategy = "INTERLEAVED"
    /\ nThreads > 1
    /\ m_height % nThreads /= 0
    /\ pc[TickThread] = "join"
    /\ \E w \in Workers :
          /\ workers[w].busy
          /\ workers[w].task.rows /= <<>>
          /\ workers[w].task.rows[Len(workers[w].task.rows)]
                 >= (m_height \div nThreads) * nThreads
    /\ Len(InterleavedRows(nThreads - 1)) < Len(InterleavedRows(0))

\* v mod n in the Euclidean sense: the r of 0..n-1 with v = q*n + r
EuclidMod(v, n) ==
    CHOOSE r \in 0..(n - 1) : \E q \in IntRange : v = q * n + r

\* C28: for every int x and y and every grid, grid(x, y) resolves to
\* effX = x mod width and effY = y mod height in the Euclidean sense, both in
\* range, and the access raises no out-of-range error.
C28_EuclideanResolution ==
    \A c \in Clients :
        pc[c] = "accessed" =>
            /\ loc[c].snap = <<EuclidMod(loc[c].x, m_width),
                               EuclidMod(loc[c].y, m_height)>>
            /\ loc[c].snap[1] \in 0..(m_width - 1)
            /\ loc[c].snap[2] \in 0..(m_height - 1)
            /\ loc[c].v /= OutOfRange

\* the byte a cell of the trail holds one generation later, when it never has
\* exactly 3 live neighbours and is not kept alive
TrailNext(v) == IF v = LIVE_STATE THEN 254 ELSE IF v = 0 THEN 0 ELSE v - 1

\* C29: a cell that stops being LIVE at generation g (here g = 1, no cell
\* ever having 2 or 3 live neighbours) holds 0xFE at g and 0xFE - k at g + k
\* for 0 <= k <= 254, so 0x00 at g + 254 and in every later generation; every
\* cell moves one step down the trail per generation, never below zero, and a
\* DEAD cell stays DEAD.
C29_DecayTrail ==
    /\ [][\A k \in 1..Len(m_front.mat) :
              m_front'.mat[k] = TrailNext(m_front.mat[k])]_vars
    /\ [](gen \in 1..255 =>
              /\ \E k \in 1..Len(m_front.mat) : m_front.mat[k] = 255 - gen
              /\ \A k \in 1..Len(m_front.mat) : m_front.mat[k] \in {0, 255 - gen})
    /\ [](gen > 255 => \A k \in 1..Len(m_front.mat) : m_front.mat[k] = 0)

\* the tick thread is inside the lambda of m_grid.write()
InTickWrite == pc[TickThread] \in {"enqueue", "join", "swap", "callback"}

\* C30: in every iteration the tick thread takes the grid lock, enters
\* updateState() if and only if m_paused is false at that moment, reaches the
\* callback only after updateState() has returned (all its row tasks done and
\* the buffers swapped) or after it was skipped for the pause, runs the
\* callback once while it holds the lock, and releases the lock as the
\* callback returns; an iteration ends only after its callback.
C30_TickStep ==
    /\ [](InTickWrite => m_mutex = TickThread)
    /\ [][(pc[TickThread] = "lock" /\ pc'[TickThread] /= "lock") =>
             /\ m_mutex = NoThread
             /\ m_mutex' = TickThread
             /\ (pc'[TickThread] = "enqueue") = ~m_paused
             /\ (pc'[TickThread] = "callback") = m_paused]_vars
    /\ [][(pc[TickThread] /= "callback" /\ pc'[TickThread] = "callback") =>
             \/ pc[TickThread] = "swap" /\ tickStage' = "swapped" /\ gen' = gen + 1
             \/ pc[TickThread] = "lock" /\ tickStage' = "skipped" /\ gen' = gen]_vars
    /\ [](pc[TickThread] = "callback" =>
             /\ tickStage \in {"swapped", "skipped"}
             /\ futures[TickThread] = <<>>
             /\ \A task \in PoolTasks : task.owner /= TickThread)
    /\ [][(pc[TickThread] = "callback" /\ pc'[TickThread] /= "callback") =>
             /\ tickStage' = "called"
             /\ pc'[TickThread] = "sleep_check"
             /\ m_mutex' = NoThread]_vars
    /\ [][(tickStage /= "called" /\ tickStage' = "called") =>
             pc[TickThread] = "callback"]_vars
    /\ [][(pc[TickThread] /= "loop" /\ pc'[TickThread] = "loop") =>
             (pc[TickThread] = "unlaunched" \/ tickStage = "called")]_vars
    /\ [](pc[TickThread] \notin {"unlaunched", "loop", "exited", "terminated"}
              /\ ~InTickWrite /\ pc[TickThread] /= "lock"
              => tickStage = "called")

\* the tick thread is in the callback of an iteration that skipped
\* updateState() for the pause, holding the lock, after an earlier iteration
\* produced a generation
C30_Witness ==
    /\ pc[TickThread] = "callback"
    /\ tickStage = "skipped"
    /\ m_paused
    /\ m_mutex = TickThread
    /\ gen >= 1

\* the delay the sleep routine computes: paused ? s_lazyUpdateTime : m_delay
SleepDelay == IF m_paused THEN s_lazyUpdateTime ELSE m_delay

\* the sleep of the tick thread ends in this step
SleepEnds == pc[TickThread] /= "wake_reset" /\ pc'[TickThread] = "wake_reset"

\* the wake flag is raised in this step
WakeRaised == ~m_wakeFlag /\ m_wakeFlag'

\* the step is the wakeUp() of forceUpdate, of a setDelay or of stop
WakeByMethod ==
    \E c \in Clients :
        \/ pc[c] = "idle" /\ pc'[c] = "fu_check"
        \/ pc[c] = "sd_wake" /\ pc'[c] = "idle"
        \/ pc[c] = "st_wake" /\ pc'[c] = "st_join"

\* C31 (as stated): after each tick the thread goes to sleep towards the
\* deadline of paused ? s_lazyUpdateTime : m_delay; the sleep ends only when
\* the deadline has passed or the wake flag is raised; the wake flag is
\* raised only by forceUpdate, by a setDelay that lowers the delay and by
\* stop.
C31_SleepStep ==
    /\ [][(pc[TickThread] = "sleep_check" /\ pc'[TickThread] /= "sleep_check") =>
             /\ pc'[TickThread] = "sleep_lock"
             /\ loc'[TickThread].delay = SleepDelay]_vars
    /\ [][SleepEnds => (deadlinePassed \/ m_wakeFlag)]_vars
    /\ [][WakeRaised => WakeByMethod]_vars
    /\ [][\A c \in Clients :
             (pc[c] = "sd_inc" /\ pc'[c] = "idle") => m_wakeFlag' = m_wakeFlag]_vars

\* C31 (amended): after each tick the thread goes to sleep towards the
\* deadline of paused ? s_lazyUpdateTime : m_delay, unless it is not paused
\* and m_ignoreDelay is set, when it does not sleep at all; the sleep ends
\* only when the deadline has passed or the wake flag is raised; the wake
\* flag is raised only by wakeUp(), which forceUpdate, a setDelay that
\* lowers the delay and stop call and which is public, so a caller can raise
\* it directly.
C31_SleepStepOrSkip ==
    /\ [][(pc[TickThread] = "sleep_check" /\ pc'[TickThread] /= "sleep_check") =>
             IF m_paused \/ ~m_ignoreDelay
             THEN /\ pc'[TickThread] = "sleep_lock"
                  /\ loc'[TickThread].delay = SleepDelay
             ELSE pc'[TickThread] = "loop"]_vars
    /\ [][SleepEnds => (deadlinePassed \/ m_wakeFlag)]_vars
    /\ [][WakeRaised =>
             \/ WakeByMethod
             \/ calls' = calls + 1 /\ pc' = pc /\ loc' = loc]_vars
    /\ [][\A c \in Clients :
             (pc[c] = "sd_inc" /\ pc'[c] = "idle") =>
                 (m_wakeFlag' = m_wakeFlag /\ m_delay' = loc[c].delay)]_vars

\* a sleep towards the lazy interval has ended before its deadline, by the
\* wake flag, after a generation was produced
C31_Witness ==
    /\ pc[TickThread] = "wake_reset"
    /\ ~deadlinePassed
    /\ m_wakeFlag
    /\ loc[TickThread].delay = s_lazyUpdateTime
    /\ gen >= 1

\* the tick thread is blocked in a sleep whose deadline has not passed
Sleeping == pc[TickThread] = "blocked" /\ ~deadlinePassed

\* C32 (as stated): a setDelay(d) that finds the tick thread asleep raises
\* the wake flag only when d is smaller than the delay of that sleep; a
\* setDelay(d) that raises no wake flag stores d.
C32_WakeBelowOutstanding ==
    /\ [][\A c \in Clients :
             (pc[c] = "sd_wake" /\ pc'[c] = "idle" /\ Sleeping) =>
                 loc[c].delay < loc[TickThread].delay]_vars
    /\ [][\A c \in Clients :
             (pc[c] = "sd_inc" /\ pc'[c] = "idle") =>
                 (m_wakeFlag' = m_wakeFlag /\ m_delay' = loc[c].delay)]_vars

\* C32 (amended): setDelay(d) raises the wake flag exactly when d is smaller
\* than the stored delay m_delay it reads, whatever the sleep in progress;
\* it then stores d and calls wakeUp(); when d is larger it stores d and
\* raises no wake flag, and when d is equal it does nothing.
C32_WakeBelowStored ==
    /\ [][\A c \in Clients :
             (pc[c] = "idle" /\ pc'[c] \in {"sd_dec", "sd_inc"}) =>
                 /\ loc'[c].delay /= m_delay
                 /\ (pc'[c] = "sd_dec") = (loc'[c].delay < m_delay)
                 /\ m_wakeFlag' = m_wakeFlag
                 /\ m_delay' = m_delay]_vars
    /\ [][\A c \in Clients :
             (pc[c] = "sd_dec" /\ pc'[c] /= "sd_dec") =>
                 /\ pc'[c] = "sd_wake"
                 /\ m_delay' = loc[c].delay
                 /\ m_wakeFlag' = m_wakeFlag]_vars
    /\ [][\A c \in Clients :
             (pc[c] = "sd_wake" /\ pc'[c] /= "sd_wake") =>
                 /\ pc'[c] = "idle"
                 /\ m_wakeFlag'
                 /\ m_delay' = m_delay]_vars
    /\ [][\A c \in Clients :
             (pc[c] = "sd_inc" /\ pc'[c] /= "sd_inc") =>
                 /\ pc'[c] = "idle"
                 /\ m_wakeFlag' = m_wakeFlag
                 /\ m_delay' = loc[c].delay]_vars

\* a setDelay(50) that lowered the stored delay is about to wake a thread
\* that sleeps towards the lazy interval, which is shorter
C32_Witness ==
    \E c \in Clients :
        /\ pc[c] = "sd_wake"
        /\ Sleeping
        /\ loc[TickThread].delay = s_lazyUpdateTime
        /\ loc[c].delay > s_lazyUpdateTime
        /\ m_delay = loc[c].delay

Starts(w) == ~workers[w].busy /\ workers'[w].busy

\* C34: the queue changes only by an append at its back (enqueue), by the
\* removal of its front, which is the task a worker starts, or by the clear
\* of stopPool; so the tasks of a caller are queued in the order of its
\* enqueue calls, and a task a worker runs was enqueued before every task
\* of the same caller that is still queued.
C34_Fifo ==
    /\ [][m_tasks' /= m_tasks =>
             \/ Len(m_tasks') = Len(m_tasks) + 1
                    /\ SubSeq(m_tasks', 1, Len(m_tasks)) = m_tasks
             \/ /\ m_tasks /= <<>>
                /\ m_tasks' = Tail(m_tasks)
                /\ \E w \in Workers : Starts(w) /\ workers'[w].task = Head(m_tasks)
             \/ m_tasks' = <<>> /\ m_stop' /\ ~m_stop]_vars
    /\ [][\A w \in Workers : Starts(w) =>
             (m_tasks /= <<>> /\ workers'[w].task = Head(m_tasks)
                 /\ m_tasks' = Tail(m_tasks))]_vars
    /\ [](\A i, j \in 1..Len(m_tasks) :
             (i < j /\ m_tasks[i].owner = m_tasks[j].owner) =>
                 m_tasks[i].idx < m_tasks[j].idx)
    /\ [](\A w \in Workers : \A j \in 1..Len(m_tasks) :
             (workers[w].busy /\ workers[w].task.owner = m_tasks[j].owner) =>
                 workers[w].task.idx < m_tasks[j].idx)

\* a worker runs the first task of a caller while two tasks enqueued after it
\* wait in the queue and another worker is free
C34_Witness ==
    /\ Len(m_tasks) >= 2
    /\ nThreads >= 2
    /\ \E w \in Workers : workers[w].busy /\ workers[w].task.idx = 0
    /\ \E w \in Workers : ~workers[w].busy /\ w \notin exitedWorkers

\* ------------------------------------------- the two buffers of the grid
\* a grid whose front buffer holds any pattern of LIVE and DEAD cells
InitBuffers ==
    /\ InitCommon(PopulateDim[1], PopulateDim[2], {1})
    /\ m_front \in {[w |-> PopulateDim[1], h |-> PopulateDim[2], mat |-> f] :
                      f \in [1..(PopulateDim[1] * PopulateDim[2]) ->
                                {DEAD_STATE, LIVE_STATE}]}
    /\ m_delay = 5
    /\ spawnTests \in {[k \in 1..(PopulateDim[1] * PopulateDim[2]) |->
                            [noise |-> b, uniform |-> b]] : b \in BOOLEAN}

\* task(): the task that runs is the one its owner enqueued, a row task of
\* populate or a row task of updateState
Worker_Exec(w) ==
    /\ workers[w].busy
    /\ IF loc[workers[w].task.owner].op = "populate"
       THEN Worker_Populate(w)
       ELSE Worker_Run(w)

NextBuffers ==
    \/ TickNext
    \/ \E w \in Workers : Worker_Take(w) \/ Worker_Exec(w)
    \/ \E c \in Clients :
          \/ PO_Lock(c)
          \/ US_Enqueue(c)
          \/ US_Join(c)
          \/ PO_Unlock(c)
          \/ CL_Lock(c)
          \/ CL_Body(c)
          \/ WR_Lock(c)
          \/ WR_Body(c)

\* the tick loop with clients that populate, clear and write cells
SpecBuffers == InitBuffers /\ [][NextBuffers]_vars

\* buffer m has the dimensions of the grid
HasGridDims(m) ==
    /\ m.w = m_width
    /\ m.h = m_height
    /\ Len(m.mat) = m_width * m_height

\* C35: after any sequence of populate, updateState, clear and single-cell
\* writes both buffers have the dimensions (width, height) and a flat length
\* of width*height, and every updateState() that completes exchanges the
\* two buffers: the buffer that was the back is the front and the buffer
\* that was the front is the back
C35_BufferDims ==
    /\ [](HasGridDims(m_front) /\ HasGridDims(m_back))
    /\ [](m_width = PopulateDim[1] /\ m_height = PopulateDim[2])
    /\ [][gen' /= gen => (m_front' = m_back /\ m_back' = m_front)]_vars

\* a tick has exchanged the buffers after a populate, a clear and a write to
\* a cell have all happened
C35_Witness ==
    /\ gen >= 1
    /\ tickStage = "swapped"
    /\ calls >= 2
    /\ m_front /= m_back
    /\ \E k \in 1..Len(m_front.mat) : m_front.mat[k] /= DEAD_STATE

\* ------------------------------------ the pool's condition variable
\* the variables an action on the set of sleeping workers leaves alone
awakeVars == <<stopVars, cvNotified, spawnTests, deadlinePassed, gridVars, pm,
               m_mutex, flagVars, loc, histVars, calls>>

\* m_condition.wait(lock, pred): under the lock pred is false, the worker
\* releases the lock and blocks in one step
Worker_Wait(w) ==
    /\ w \notin exitedWorkers
    /\ w \notin asleep
    /\ ~workers[w].busy
    /\ m_tasks = <<>>
    /\ ~m_stop
    /\ asleep' = asleep \cup {w}
    /\ UNCHANGED <<awakeVars, poolVars, futures, pc>>

\* the wait returns though no thread notified (a spurious wake-up); the
\* worker evaluates pred again under the lock
Worker_Spurious(w) ==
    /\ w \in asleep
    /\ asleep' = asleep \ {w}
    /\ UNCHANGED <<awakeVars, poolVars, futures, pc>>

\* the worker is not blocked in the wait and pred is true: it takes the
\* front of the queue
Worker_Front(w) ==
    /\ w \notin asleep
    /\ Worker_Take(w)

\* enqueue(fn): under the pool's lock m_tasks.emplace_back(...); the lock
\* is released
EQ_Emplace(c) ==
    /\ pc[c] = "idle"
    /\ Enqueued < MaxTasks
    /\ m_tasks' = Append(m_tasks, [owner |-> c, idx |-> Len(futures[c]),
                                   rows |-> <<>>, tag |-> 0])
    /\ futures' = [futures EXCEPT ![c] = Append(@, "pending")]
    /\ pc' = [pc EXCEPT ![c] = "eq_notify"]
    /\ UNCHANGED <<auxVars, nThreads, workers, gridVars, pm, m_mutex, flagVars,
                   loc, histVars, calls>>

\* an enqueue that returns without notifying
EQ_Notify_none(c) ==
    /\ pc[c] = "eq_notify"
    /\ pc' = [pc EXCEPT ![c] = "idle"]
    /\ UNCHANGED <<auxVars, poolVars, gridVars, pm, futures, m_mutex, flagVars,
                   loc, histVars, calls>>

\* enqueue(fn): m_condition.notify_one() after the lock is released: one of
\* the workers blocked in the wait, if there is one, is woken; the future
\* is returned
EQ_Notify(c) ==
    /\ pc[c] = "eq_notify"
    /\ IF asleep = {}
       THEN asleep' = asleep
       ELSE \E w \in asleep : asleep' = asleep \ {w}
    /\ pc' = [pc EXCEPT ![c] = "idle"]
    /\ UNCHANGED <<awakeVars, poolVars, futures>>

NextQueue ==
    \/ \E w \in Workers :
          \/ Worker_Wait(w)
          \/ Worker_Spurious(w)
          \/ Worker_Front(w)
          \/ Worker_Run(w)
    \/ \E c \in Clients : EQ_Emplace(c) \/ EQ_Notify(c)

\* every worker thread and every thread inside enqueue() keeps running; a
\* spurious wake-up may never happen
FairnessQueue ==
    /\ \A w \in 1..MaxWorkers : WF_vars(w \in Workers /\ (Worker_Front(w) \/ Worker_Run(w)))
    /\ \A c \in Clients : WF_vars(EQ_Notify(c))

\* the pool with its workers going to sleep and being woken, on a pool that
\* is not stopped
SpecQueue == InitPool /\ [][NextQueue]_vars /\ FairnessQueue

\* the number of places task k of client c is in: queued, held by a worker,
\* or done
Places(c, k) ==
    Cardinality({n \in 1..Len(m_tasks) : m_tasks[n].owner = c /\ m_tasks[n].idx = k - 1})
    + Cardinality({w \in Workers : /\ workers[w].busy
                                   /\ workers[w].task.owner = c
                                   /\ workers[w].task.idx = k - 1})
    + (IF futures[c][k] = "ready" THEN 1 ELSE 0)

\* the threads inside enqueue() whose notify_one() is still to come
Notifying == {c \in Clients : pc[c] = "eq_notify"}

\* the workers that hold no task and are not blocked in the wait
AwakeIdle == {w \in Workers : ~workers[w].busy /\ w \notin asleep}

\* C36: on a pool that is not stopped every task given to enqueue() is in
\* exactly one place at any time (queued, held by one worker, or run with
\* its future ready), a future that is ready stays ready, while a worker is
\* blocked in the wait every queued task has a notify_one() still to come
\* or an idle worker that is awake to take it (no notification is lost),
\* and the future of every task becomes ready
C36_ExactlyOnce ==
    /\ [](\A c \in Clients : \A k \in 1..Len(futures[c]) : Places(c, k) = 1)
    /\ [][\A c \in Clients : \A k \in 1..Len(futures[c]) :
             futures[c][k] = "ready" => futures'[c][k] = "ready"]_vars
    /\ [](asleep /= {} => Len(m_tasks) <= Cardinality(Notifying) + Cardinality(AwakeIdle))
    /\ \A c \in Clients : \A k \in 1..MaxTasks :
          (Len(futures[c]) >= k) ~> (Len(futures[c]) >= k /\ futures[c][k] = "ready")

\* a task is queued while a worker is blocked in the wait and the enqueue
\* has not notified yet, after another task has been run
C36_Witness ==
    /\ nThreads >= 2
    /\ m_tasks /= <<>>
    /\ asleep /= {}
    /\ \E c \in Clients : pc[c] = "eq_notify"
    /\ \E c \in Clients : \E k \in 1..Len(futures[c]) : futures[c][k] = "ready"

\* C37: a wake signal is never lost: whenever the tick thread is blocked in
\* the wait of its sleep step before the deadline and the wake flag is
\* raised, the notification of that wakeUp() is on its way to the thread, so
\* the sleep step returns without waiting for the deadline.
C37_WakeNotLost ==
    (/\ pc[TickThread] = "blocked"
     /\ m_wakeFlag
     /\ ~deadlinePassed) => cvNotified

\* ------------------------------------------------------------ togglePause
NextToggle ==
    \/ TickNext
    \/ WorkerNext
    \/ \E c \in Clients : TG_Load(c) \/ TG_Store(c)

\* the tick loop and clients that call togglePause() only; the flag starts
\* at false and calls counts the togglePause() calls
SpecToggle == Init /\ [][NextToggle]_vars

\* C38: togglePause() is atomic: once n calls have returned and none is
\* running, the pause flag has been flipped n times (after two concurrent
\* calls it is at its original value); and the store of every call is a
\* flip: the value the call loaded is still the flag's value when it stores
\* the negation, which is the value it returns.
C38_ToggleAtomic ==
    /\ (\A c \in Clients : pc[c] = "idle") => (m_paused = (calls % 2 = 1))
    /\ \A c \in Clients : pc[c] = "tg_store" => loc[c].paused = m_paused

\* ------------------------------- forceUpdate() with a task that throws
\* for (auto& future : futures) future.get(): get() rethrows the stored
\* exception; it leaves the join loop, process_multi (the futures are
\* destroyed, which waits for nothing), updateState() before the swap and
\* write(), whose guard releases the grid lock, and reaches the caller of
\* forceUpdate()
FU_Fail(c) ==
    /\ pc[c] = "join"
    /\ pm[c].j < pm[c].n
    /\ futures[c][pm[c].j + 1] = "error"
    /\ m_mutex' = NoThread
    /\ pm' = [pm EXCEPT ![c] = PmNone]
    /\ futures' = [futures EXCEPT ![c] = <<>>]
    /\ pc' = [pc EXCEPT ![c] = "failed"]
    /\ UNCHANGED <<auxVars, poolVars, gridVars, flagVars, loc, histVars, calls>>

NextForceFail ==
    \/ \E w \in Workers : Worker_Take(w) \/ Worker_Run(w) \/ Worker_Throw(w)
    \/ \E c \in Clients :
          \/ SetPause(c)
          \/ FU_Wake(c)
          \/ FU_Check(c)
          \/ FU_Lock(c)
          \/ US_Enqueue(c)
          \/ US_Join(c)
          \/ US_Swap(c)
          \/ FU_Unlock(c)
          \/ FU_Fail(c)

\* clients that pause the driver and call forceUpdate(), with row tasks
\* that may throw; a client that got the exception calls nothing more
SpecForceFail == InitFail /\ [][NextForceFail]_vars

\* thread t is inside updateState()
InUpdate(t) == pc[t] \in {"enqueue", "join", "swap"}

\* a row task submitted by thread t is queued or held by a worker
TaskLeft(t) ==
    \/ \E n \in 1..Len(m_tasks) : m_tasks[n].owner = t
    \/ \E w \in Workers : workers[w].busy /\ workers[w].task.owner = t

\* C39: updateState() never returns, normally or by propagating the failure
\* of a task, while a row task it submitted is still queued or running: a
\* thread that is not inside updateState() has no row task left in the pool.
C39_JoinedBeforeReturn ==
    \A t \in Threads : ~InUpdate(t) => ~TaskLeft(t)

\* ---------------------------------------------- the engine as a whole
ClientNextAll ==
    \/ ClientNextLive
    \/ \E c \in Clients : WR_Call(c) \/ WR_Acquire(c) \/ WR_Body(c)

NextAll == TickNext \/ WorkerNext \/ ClientNextAll

\* the scheduler of SpecLive; a thread inside the function of write() runs
\* on, and a thread that waits for the grid lock in write() gets it if the
\* lock keeps becoming free
FairnessAll ==
    /\ Fairness
    /\ \A c \in Clients : WF_vars(WR_Body(c)) /\ SF_vars(WR_Acquire(c))

\* the tick loop, the workers and clients that call forceUpdate, setDelay,
\* setPause, stop and write, under a fair scheduler
SpecAll == InitLive /\ [][NextAll]_vars /\ FairnessAll

\* thread t waits for a lock, for a condition variable or for another thread
Waiting(t) ==
    pc[t] \in {"lock", "sleep_lock", "blocked", "join", "fu_lock", "wr_wait", "st_join"}

\* C40: the engine is deadlock-free: under fair scheduling every
\* updateState() that was entered returns (one thread at a time is inside
\* it, the one that holds the grid lock), the tick thread does not wait for
\* ever and every call of forceUpdate, setDelay, setPause, stop and write
\* returns (as long as the model lets generations be produced); the pool is
\* given a task only
\* by the thread that holds the grid lock and is inside updateState(), and
\* no step of a worker acquires or releases the grid lock, so the two locks
\* are taken in the order grid, then pool.
C40_DeadlockFree ==
    /\ [](\A t \in Threads : InUpdate(t) => m_mutex = t)
    /\ (\E t \in Threads : InUpdate(t)) ~> (\A t \in Threads : ~InUpdate(t))
    /\ Waiting(TickThread) ~> (~Waiting(TickThread) \/ gen = MaxGen)
    /\ \A c \in Clients : (pc[c] /= "idle") ~> (pc[c] = "idle" \/ gen = MaxGen)
    /\ [][Len(m_tasks') > Len(m_tasks) =>
             (m_mutex \in Threads /\ InUpdate(m_mutex) /\ m_mutex' = m_mutex)]_vars
    /\ [][workers' /= workers => m_mutex' = m_mutex]_vars

\* the tick thread is inside updateState() with a row task running on a
\* worker, while one client waits for the grid lock in write() and the
\* other waits in stop() for the tick thread
C40_Witness ==
    /\ InUpdate(TickThread)
    /\ m_mutex = TickThread
    /\ \E w \in Workers : workers[w].busy
    /\ \E c \in Clients : pc[c] = "wr_wait"
    /\ \E c \in Clients : pc[c] = "st_join"
====
